---- MODULE Spec2Model ----
(***************************************************************************)
(* Research orchestration pipeline of dependify/deepagent, its             *)
(* intelligence fuser and its evolution engine.                            *)
(*                                                                         *)
(* The record store (prisma) holds ResearchJob rows, Company rows and      *)
(* ResearchResult rows.  The job-submission routes (/start,                *)
(* /execute/:companyId, /batch) create jobs, /:id/cancel cancels them and  *)
(* executeResearch drives one job through the four stages.  Every `await`  *)
(* of a handler is one step of the model, so that the steps of concurrent  *)
(* handlers and runs interleave as they do on the event loop.              *)
(*                                                                         *)
(* Spec, SpecSubmit   routes and executeResearch                           *)
(* SpecFuse           the scores and gaps computed from the stage outputs  *)
(* SpecEngine         the evolution engine: event log and source rows,     *)
(*                    under concurrent calls and failing store operations; *)
(*                    successRate in exact decimal arithmetic, which no    *)
(*                    comparison of the code tells from the doubles for as *)
(*                    few events as a behaviour holds                      *)
(* SpecSaturate       successRate as the double it is, under a long run    *)
(*                    of success events                                    *)
(* SpecInsights       analyzeLearningInsights over a stored event log, the *)
(*                    window means computed as the doubles they are        *)
(* SpecLearn          analyzeLearningInsights over the log that the        *)
(*                    logging functions built                              *)
(* SpecRecover        events for one source processed one after the other, *)
(*                    from every integer successRate up to MaxSeedRate     *)
(* SpecHunt           huntSocialProfiles: the six searches, their join and *)
(*                    the verification pass                                *)
(***************************************************************************)
EXTENDS Integers, Sequences, FiniteSets, TLC

\* ---------------------------------------------------------------- bounds
\* Spec: one company and one job, with cancel requests, store failures and
\* degraded collaborator results
NumCompanies == 1
MaxJobs == 1
MaxCancels == 2
MaxFailures == 2
MaxDegraded == 4
\* SpecSubmit: several jobs of the same companies, submitted concurrently
SubmitCompanies == 1
SubmitJobs == 2
SubmitCancels == 1
SubmitFailures == 1
SubmitDegraded == 0
\* SpecFuse: the sizes of the stage outputs handed to the fuser
MaxPlatforms == 3
MaxContacts == 1
MaxMentions == 1
MaxRiskFlags == 1
MaxOpportunities == 2
\* SpecEngine: source rows, calls of the evolution engine (each logs one
\* event) and store operations of the engine that may fail
NumSources == 1
MaxCalls == 3
EngineFailures == 1
\* SpecRecover: the successRate of the row before the first event, 0..MaxSeedRate
MaxSeedRate == 30
\* SpecSaturate: the length of a run of consecutive success events on one row
MaxStreak == 320
\* SpecInsights: completion events older than the 20 most recent, and store
\* operations of analyzeLearningInsights that may fail
MaxOlder == 1
InsightFailures == 1

\* ------------------------------------------------------- program constants
\* the four stages that executeResearch runs: website analysis, social media
\* hunt, news aggregation, business analysis
Stages == 1..4

\* mutation of RunningProgress: the same value at the start of every stage
RunningProgressFlat(k) == 5

\* progress written when stage k is marked RUNNING (5, 30, 55, 80)
RunningProgress(k) == 25 * (k - 1) + 5
\* mutation of CompletedProgress: the progress of the start of the stage again
CompletedProgressStale(k) == 25 * (k - 1) + 5

\* progress written when stage k is marked COMPLETED (25, 50, 75, 100)
CompletedProgress(k) == 25 * k

NonTerminal == {"PENDING", "QUEUED", "RUNNING"}
Terminal == {"COMPLETED", "FAILED", "CANCELLED"}
\* statuses from which POST /:id/cancel proceeds
Cancellable == {"PENDING", "QUEUED", "RUNNING"}

\* what a collaborator call returns: a usable result, or a result whose
\* error list is populated and that carries no usable data; never an exception
Outcomes == {"ok", "degraded"}
NoData == "null"

\* ------------------------------------------------------------------ state
VARIABLES
    company,       \* Company rows: [status, website]
    job,           \* ResearchJob rows (status "NONE": row not created yet)
    nJobs,         \* number of job rows created so far
    results,       \* ResearchResult rows
    run,           \* one executeResearch invocation per job: position and locals
    startChecked,  \* per company: /start requests past the existing-job check
    startCreated,  \* jobs created by /start whose company is not yet marked QUEUED
    batchPending,  \* /batch requests that created their jobs, before updateMany
    cancelJob,     \* per job: cancel requests past validation, before the job update
    cancelCo,      \* per job: cancel requests past the job update, before the company update
    cancels,       \* cancel requests that may still arrive
    faults,        \* store operations that may still fail
    degraded,      \* degraded collaborator results that may still be returned
    resp,          \* the last HTTP response sent by a route
    lastUpsert,    \* history: per company, the record written by the most recent upsert
    cancelMark,    \* history: per job, what the last cancel request overwrote
    intel,         \* the ComprehensiveIntelligence record that the fuser fills in
    fused,         \* the fuser has computed the scores and gaps of intel
    sourceConfig,  \* SourceConfig rows, by sourceName (Null: no row)
    evolutionLog,  \* EvolutionLog rows, in the order of their creation
    calls,         \* the calls of logSourceSuccess/logSourceFailure/logResearchComplete
    streak,        \* one row under consecutive success events, successRate as a double
    insights,      \* what the last call of analyzeLearningInsights returned (Null: no call)
    searches,      \* huntSocialProfiles: the promise of each searchPlatform call
    hunt           \* huntSocialProfiles: its position and locals

vars == <<company, job, nJobs, results, run, startChecked, startCreated,
          batchPending, cancelJob, cancelCo, cancels, faults, degraded, resp,
          lastUpsert, cancelMark, intel, fused, sourceConfig, evolutionLog,
          calls, streak, insights, searches, hunt>>

\* the state of the job-submission routes and of executeResearch
researchVars == <<company, job, nJobs, results, run, startChecked, startCreated,
                  batchPending, cancelJob, cancelCo, cancels, degraded, resp,
                  lastUpsert, cancelMark>>
\* the state of the intelligence fuser
fuserVars == <<intel, fused>>
\* the state of the evolution engine
engineVars == <<sourceConfig, evolutionLog, calls, streak, insights>>
\* the state of the social media hunter
hunterVars == <<searches, hunt>>

routeVars == <<startChecked, startCreated, batchPending>>
cancelVars == <<cancelJob, cancelCo, cancels, cancelMark>>
envVars == <<faults, degraded>>

CompanyIds == DOMAIN company
JobIds == DOMAIN job

NoJob == [companyId |-> 0, status |-> "NONE", progress |-> 0,
          agents |-> [k \in Stages |-> "PENDING"], errorMessage |-> ""]

\* prisma.researchJob.create: status QUEUED, the other columns at their defaults
NewJob(c) == [companyId |-> c, status |-> "QUEUED", progress |-> 0,
              agents |-> [k \in Stages |-> "PENDING"], errorMessage |-> ""]

NoRun == [pc |-> "idle", stage |-> 0, intel |-> [k \in Stages |-> NoData],
          err |-> "", thrown |-> "", upserts |-> 0, swallowed |-> FALSE]

NoRecord == [companyId |-> 0, writer |-> 0, intel |-> [k \in Stages |-> NoData]]

NoResp == [op |-> "none", id |-> 0, code |-> 0]

NoMark == [from |-> "NONE", progress |-> 0]

RECURSIVE SumTo(_, _)
SumTo(f, n) == IF n = 0 THEN 0 ELSE f[n] + SumTo(f, n - 1)

\* requests of /start that will still create a job
StartsInFlight == SumTo(startChecked, Cardinality(CompanyIds))

\* room for one more job row within the bound of the model
Room(n) == nJobs + StartsInFlight + n <= Cardinality(JobIds)

\* the store before any request: the companies exist (imported earlier, with
\* or without a website), there is no job and no research result
InitWith(nCompanies, nJobsMax, nCancels, nFaults, nDegraded) ==
    /\ company \in [1..nCompanies -> [status : {"PENDING"}, website : BOOLEAN]]
    /\ job = [j \in 1..nJobsMax |-> NoJob]
    /\ nJobs = 0
    /\ results = {}
    /\ run = [j \in 1..nJobsMax |-> NoRun]
    /\ startChecked = [c \in 1..nCompanies |-> 0]
    /\ startCreated = {}
    /\ batchPending = <<>>
    /\ cancelJob = [j \in 1..nJobsMax |-> 0]
    /\ cancelCo = [j \in 1..nJobsMax |-> 0]
    /\ cancels = nCancels
    /\ faults = nFaults
    /\ degraded = nDegraded
    /\ resp = NoResp
    /\ lastUpsert = [c \in 1..nCompanies |-> NoRecord]
    /\ cancelMark = [j \in 1..nJobsMax |-> NoMark]

\* a nullable value: null, or the value
Null == <<>>
Some(v) == <<v>>
IsNull(o) == o = Null
Get(o) == o[1]

\* const intel = {...}: the four outputs, scores at 0, no gaps
NewIntel(w, s, n, b) ==
    [websiteData |-> w, socialData |-> s, newsData |-> n, businessData |-> b,
     digitalMaturityScore |-> 0, socialPresenceScore |-> 0, reputationScore |-> 0,
     opportunityScore |-> 0, completenessScore |-> 0, confidenceScore |-> 0,
     dataGaps |-> <<>>]

\* no fusion is under way
FuserIdle == intel = NewIntel(Null, Null, Null, Null) /\ fused = TRUE
\* the evolution engine is not in use
EngineIdle ==
    /\ sourceConfig = <<>> /\ evolutionLog = <<>> /\ calls = <<>>
    /\ streak = [start |-> 100, n |-> 0, gap |-> [hi |-> 0, lo |-> 0]]
    /\ insights = Null
\* huntSocialProfiles has not been called: `result` as it is constructed
NoHunt ==
    [pc |-> "idle", foundProfiles |-> <<>>, i |-> 0,
     result |-> [platforms |-> <<>>, socialPresenceScore |-> 0, errors |-> <<>>]]
HunterIdle == searches = <<>> /\ hunt = NoHunt
Idle == FuserIdle /\ EngineIdle /\ HunterIdle

Init ==
    /\ InitWith(NumCompanies, MaxJobs, MaxCancels, MaxFailures, MaxDegraded)
    /\ Idle

InitSubmit ==
    /\ InitWith(SubmitCompanies, SubmitJobs, SubmitCancels, SubmitFailures, SubmitDegraded)
    /\ Idle

\* a store operation succeeds (TRUE) or throws (FALSE: connection lost, ...)
StoreOutcomes == IF faults > 0 THEN {TRUE, FALSE} ELSE {TRUE}
Fault(ok) == faults' = IF ok THEN faults ELSE faults - 1

\* calling executeResearch(jobId): the run is at its first await (findUnique)
Spawn(r, j) == [r EXCEPT ![j] = [NoRun EXCEPT !.pc = "load"]]

\* ------------------------------------------------- routes/research.ts
\* POST /start, up to the existing-job check
HasActiveJob(c) ==
    \E j \in JobIds : job[j].companyId = c /\ job[j].status \in NonTerminal

StartCheck(c) ==
    /\ Room(1)
    /\ ~HasActiveJob(c)
    /\ startChecked' = [startChecked EXCEPT ![c] = @ + 1]
    /\ UNCHANGED <<fuserVars, hunterVars, engineVars>>
    /\ UNCHANGED <<company, job, nJobs, results, run, startCreated, batchPending,
                   cancelVars, envVars, resp, lastUpsert>>

StartReject(c) ==
    /\ HasActiveJob(c)
    /\ resp' = [op |-> "start", id |-> c, code |-> 400]
    /\ UNCHANGED <<fuserVars, hunterVars, engineVars>>
    /\ UNCHANGED <<company, job, nJobs, results, run, routeVars, cancelVars,
                   envVars, lastUpsert>>

\* POST /start: prisma.researchJob.create
StartCreate(c) ==
    /\ startChecked[c] > 0
    /\ startChecked' = [startChecked EXCEPT ![c] = @ - 1]
    /\ nJobs' = nJobs + 1
    /\ job' = [job EXCEPT ![nJobs + 1] = NewJob(c)]
    /\ startCreated' = startCreated \cup {nJobs + 1}
    /\ UNCHANGED <<fuserVars, hunterVars, engineVars>>
    /\ UNCHANGED <<company, results, run, batchPending, cancelVars, envVars,
                   resp, lastUpsert>>

\* POST /start: company marked QUEUED, executeResearch fired and forgotten, 201
StartMark(j) ==
    /\ j \in startCreated
    /\ startCreated' = startCreated \ {j}
    /\ company' = [company EXCEPT ![job[j].companyId].status = "QUEUED"]
    /\ run' = Spawn(run, j)
    /\ resp' = [op |-> "start", id |-> j, code |-> 201]
    /\ UNCHANGED <<fuserVars, hunterVars, engineVars>>
    /\ UNCHANGED <<job, nJobs, results, startChecked, batchPending, cancelVars,
                   envVars, lastUpsert>>

\* POST /execute/:companyId: the job is created and executeResearch awaited
Execute(c) ==
    /\ Room(1)
    /\ nJobs' = nJobs + 1
    /\ job' = [job EXCEPT ![nJobs + 1] = NewJob(c)]
    /\ run' = Spawn(run, nJobs + 1)
    /\ UNCHANGED <<fuserVars, hunterVars, engineVars>>
    /\ UNCHANGED <<company, results, routeVars, cancelVars, envVars, resp,
                   lastUpsert>>

\* the jobs that Promise.all(companies.map(create)) adds, one per company
RECURSIVE CreateAll(_, _, _)
CreateAll(jb, n, S) ==
    IF S = {} THEN jb
    ELSE LET c == CHOOSE x \in S : \A y \in S : x <= y
         IN  CreateAll([jb EXCEPT ![n + 1] = NewJob(c)], n + 1, S \ {c})

\* POST /batch: the jobs are created; no existing-job check, no executeResearch
BatchCreate(S) ==
    /\ S # {}
    /\ Room(Cardinality(S))
    /\ nJobs' = nJobs + Cardinality(S)
    /\ job' = CreateAll(job, nJobs, S)
    /\ batchPending' = Append(batchPending, S)
    /\ UNCHANGED <<fuserVars, hunterVars, engineVars>>
    /\ UNCHANGED <<company, results, run, startChecked, startCreated, cancelVars,
                   envVars, resp, lastUpsert>>

RemoveAt(s, i) == SubSeq(s, 1, i - 1) \o SubSeq(s, i + 1, Len(s))

\* POST /batch: company.updateMany, 201
BatchMark(i) ==
    /\ i \in 1..Len(batchPending)
    /\ company' = [c \in CompanyIds |->
                     IF c \in batchPending[i]
                     THEN [company[c] EXCEPT !.status = "QUEUED"]
                     ELSE company[c]]
    /\ batchPending' = RemoveAt(batchPending, i)
    /\ resp' = [op |-> "batch", id |-> Cardinality(batchPending[i]), code |-> 201]
    /\ UNCHANGED <<fuserVars, hunterVars, engineVars>>
    /\ UNCHANGED <<job, nJobs, results, run, startChecked, startCreated,
                   cancelVars, envVars, lastUpsert>>

\* mutation of CancelAccepts: CANCELLED missing from the statuses refused
CancelAcceptsCancelled(status) == status \notin {"COMPLETED", "FAILED"}

\* POST /:id/cancel: findFirst and the status validation
CancelAccepts(status) == status \in Cancellable

CancelCheck(j) ==
    /\ cancels > 0
    /\ job[j].status # "NONE"
    /\ cancels' = cancels - 1
    /\ IF CancelAccepts(job[j].status)
       THEN /\ cancelJob' = [cancelJob EXCEPT ![j] = @ + 1]
            /\ UNCHANGED resp
       ELSE /\ resp' = [op |-> "cancel", id |-> j, code |-> 400]
            /\ UNCHANGED cancelJob
    /\ UNCHANGED <<fuserVars, hunterVars, engineVars>>
    /\ UNCHANGED <<company, job, nJobs, results, run, routeVars, cancelCo,
                   cancelMark, envVars, lastUpsert>>

\* mutation of CancelWriteJob: the cancel request also stops the run of the job
CancelWriteJobAborting(j) ==
    /\ cancelJob[j] > 0
    /\ cancelJob' = [cancelJob EXCEPT ![j] = @ - 1]
    /\ cancelCo' = [cancelCo EXCEPT ![j] = @ + 1]
    /\ job' = [job EXCEPT ![j].status = "CANCELLED"]
    /\ cancelMark' = [cancelMark EXCEPT
                        ![j] = [from |-> job[j].status, progress |-> job[j].progress]]
    /\ run' = [run EXCEPT ![j].pc = "thrown", ![j].thrown = "cancelled"]
    /\ UNCHANGED <<fuserVars, hunterVars, engineVars>>
    /\ UNCHANGED <<company, nJobs, results, routeVars, cancels, envVars,
                   resp, lastUpsert>>

\* POST /:id/cancel: researchJob.update({status: 'CANCELLED'})
CancelWriteJob(j) ==
    /\ cancelJob[j] > 0
    /\ cancelJob' = [cancelJob EXCEPT ![j] = @ - 1]
    /\ cancelCo' = [cancelCo EXCEPT ![j] = @ + 1]
    /\ job' = [job EXCEPT ![j].status = "CANCELLED"]
    /\ cancelMark' = [cancelMark EXCEPT
                        ![j] = [from |-> job[j].status, progress |-> job[j].progress]]
    /\ UNCHANGED <<fuserVars, hunterVars, engineVars>>
    /\ UNCHANGED <<company, nJobs, results, run, routeVars, cancels, envVars,
                   resp, lastUpsert>>

\* POST /:id/cancel: company.update({status: 'PENDING'}), 200
CancelWriteCompany(j) ==
    /\ cancelCo[j] > 0
    /\ cancelCo' = [cancelCo EXCEPT ![j] = @ - 1]
    /\ company' = [company EXCEPT ![job[j].companyId].status = "PENDING"]
    /\ resp' = [op |-> "cancel", id |-> j, code |-> 200]
    /\ UNCHANGED <<fuserVars, hunterVars, engineVars>>
    /\ UNCHANGED <<job, nJobs, results, run, routeVars, cancelJob, cancels,
                   cancelMark, envVars, lastUpsert>>

\* ------------------------------------------------- orchestrator/index.ts
At(j, pc) == run[j].pc = pc
Goto(j, pc) == [run EXCEPT ![j].pc = pc]
Co(j) == job[j].companyId

\* an exception that leaves executeResearch
Throw(j, e) == [run EXCEPT ![j].pc = "thrown", ![j].thrown = e]
\* an exception raised inside the try block: control moves to the catch block
Catch(j, e) == [run EXCEPT ![j].pc = "catchJob", ![j].err = e]

\* prisma.researchJob.findUnique({include: {company: true}})
RunLoad(j) ==
    /\ At(j, "load")
    /\ \E ok \in StoreOutcomes :
          /\ Fault(ok)
          /\ run' = IF ok THEN Goto(j, "setRunning") ELSE Throw(j, "load")
    /\ UNCHANGED <<fuserVars, hunterVars, engineVars>>
    /\ UNCHANGED <<company, job, nJobs, results, routeVars, cancelVars, degraded,
                   resp, lastUpsert>>

\* researchJob.update({status: 'RUNNING'}), before the try block
RunSetRunning(j) ==
    /\ At(j, "setRunning")
    /\ \E ok \in StoreOutcomes :
          /\ Fault(ok)
          /\ job' = IF ok THEN [job EXCEPT ![j].status = "RUNNING"] ELSE job
          /\ run' = IF ok THEN Goto(j, "markResearching") ELSE Throw(j, "setRunning")
    /\ UNCHANGED <<fuserVars, hunterVars, engineVars>>
    /\ UNCHANGED <<company, nJobs, results, routeVars, cancelVars, degraded, resp,
                   lastUpsert>>

\* company.update({status: 'RESEARCHING'}), before the try block
RunMarkResearching(j) ==
    /\ At(j, "markResearching")
    /\ \E ok \in StoreOutcomes :
          /\ Fault(ok)
          /\ company' = IF ok THEN [company EXCEPT ![Co(j)].status = "RESEARCHING"]
                        ELSE company
          /\ run' = IF ok THEN [run EXCEPT ![j].pc = "stageRun", ![j].stage = 1]
                    ELSE Throw(j, "markResearching")
    /\ UNCHANGED <<fuserVars, hunterVars, engineVars>>
    /\ UNCHANGED <<job, nJobs, results, routeVars, cancelVars, degraded, resp,
                   lastUpsert>>

\* updateJobProgress: the row update
UpdateJobProgress(jb, j, progress, k, agentStatus) ==
    [jb EXCEPT ![j].progress = progress, ![j].agents[k] = agentStatus]

\* the website collaborator is only invoked for a company that has a website
Invokes(j, k) == k # 1 \/ company[Co(j)].website

\* stage k begins: updateJobProgress(jobId, 5/30/55/80, {stage: RUNNING}), whose
\* failure is logged and swallowed; then the collaborator is called
RunStageStart(j) ==
    /\ At(j, "stageRun")
    /\ LET k == run[j].stage
           next == IF Invokes(j, k) THEN "call" ELSE "stageDone"
       IN  \E ok \in StoreOutcomes :
              /\ Fault(ok)
              /\ job' = IF ok
                        THEN UpdateJobProgress(job, j, RunningProgress(k), k, "RUNNING")
                        ELSE job
              /\ run' = [run EXCEPT ![j].pc = next,
                                    ![j].swallowed = @ \/ ~ok]
    /\ UNCHANGED <<fuserVars, hunterVars, engineVars>>
    /\ UNCHANGED <<company, nJobs, results, routeVars, cancelVars, degraded, resp,
                   lastUpsert>>

\* what the collaborators may return now
Returnable == IF degraded > 0 THEN Outcomes ELSE {"ok"}

\* mutation of RunCollaboratorReturns: a degraded result is raised as an exception
RunCollaboratorReturnsOrThrows(j) ==
    /\ At(j, "call")
    /\ \E o \in Returnable :
          /\ run' = IF o = "degraded" THEN Catch(j, "collaborator")
                    ELSE [run EXCEPT ![j].pc = "stageDone", ![j].intel[run[j].stage] = o]
          /\ degraded' = IF o = "degraded" THEN degraded - 1 ELSE degraded
    /\ UNCHANGED <<fuserVars, hunterVars, engineVars>>
    /\ UNCHANGED <<company, job, nJobs, results, routeVars, cancelVars, faults,
                   resp, lastUpsert>>

\* the stage's collaborator call resolves; its result is stored into intel
RunCollaboratorReturns(j) ==
    /\ At(j, "call")
    /\ \E o \in Returnable :
          /\ run' = [run EXCEPT ![j].pc = "stageDone", ![j].intel[run[j].stage] = o]
          /\ degraded' = IF o = "degraded" THEN degraded - 1 ELSE degraded
    /\ UNCHANGED <<fuserVars, hunterVars, engineVars>>
    /\ UNCHANGED <<company, job, nJobs, results, routeVars, cancelVars, faults,
                   resp, lastUpsert>>

\* mutation of AfterStage: the social stage is passed over after the website stage
AfterStageSkipping(r, j, k) ==
    IF k < 4 THEN [r EXCEPT ![j].pc = "stageRun", ![j].stage = IF k = 1 THEN 3 ELSE k + 1]
    ELSE [r EXCEPT ![j].pc = "upsert", ![j].stage = 0]

\* the position after stage k
AfterStage(r, j, k) ==
    IF k < 4 THEN [r EXCEPT ![j].pc = "stageRun", ![j].stage = k + 1]
    ELSE [r EXCEPT ![j].pc = "upsert", ![j].stage = 0]

\* stage k ends: updateJobProgress(jobId, 25/50/75/100, {stage: COMPLETED})
RunStageDone(j) ==
    /\ At(j, "stageDone")
    /\ LET k == run[j].stage
       IN  \E ok \in StoreOutcomes :
              /\ Fault(ok)
              /\ job' = IF ok
                        THEN UpdateJobProgress(job, j, CompletedProgress(k), k, "COMPLETED")
                        ELSE job
              /\ run' = AfterStage([run EXCEPT ![j].swallowed = @ \/ ~ok], j, k)
    /\ UNCHANGED <<fuserVars, hunterVars, engineVars>>
    /\ UNCHANGED <<company, nJobs, results, routeVars, cancelVars, degraded, resp,
                   lastUpsert>>

\* the row that researchResult.upsert writes for this run
Record(j) == [companyId |-> Co(j), writer |-> j, intel |-> run[j].intel]

\* mutation of UpsertResult: the record is inserted, not upserted
InsertResult(rows, rec) == rows \cup {rec}

\* researchResult.upsert({where: {companyId}}): update the row of the company
\* when there is one, create it otherwise
UpsertResult(rows, rec) ==
    {r \in rows : r.companyId # rec.companyId} \cup {rec}

\* scores and gaps are computed, then the record is upserted
RunUpsert(j) ==
    /\ At(j, "upsert")
    /\ \E ok \in StoreOutcomes :
          /\ Fault(ok)
          /\ results' = IF ok THEN UpsertResult(results, Record(j)) ELSE results
          /\ lastUpsert' = IF ok THEN [lastUpsert EXCEPT ![Co(j)] = Record(j)]
                           ELSE lastUpsert
          /\ run' = IF ok
                    THEN [run EXCEPT ![j].pc = "markJobDone", ![j].upserts = @ + 1]
                    ELSE Catch(j, "upsert")
    /\ UNCHANGED <<fuserVars, hunterVars, engineVars>>
    /\ UNCHANGED <<company, job, nJobs, routeVars, cancelVars, degraded, resp>>

\* researchJob.update({status: 'COMPLETED'})
RunMarkJobCompleted(j) ==
    /\ At(j, "markJobDone")
    /\ \E ok \in StoreOutcomes :
          /\ Fault(ok)
          /\ job' = IF ok THEN [job EXCEPT ![j].status = "COMPLETED"] ELSE job
          /\ run' = IF ok THEN Goto(j, "markCoDone") ELSE Catch(j, "markJobDone")
    /\ UNCHANGED <<fuserVars, hunterVars, engineVars>>
    /\ UNCHANGED <<company, nJobs, results, routeVars, cancelVars, degraded, resp,
                   lastUpsert>>

\* company.update({status: 'COMPLETED'}); return intel
RunMarkCompanyCompleted(j) ==
    /\ At(j, "markCoDone")
    /\ \E ok \in StoreOutcomes :
          /\ Fault(ok)
          /\ company' = IF ok THEN [company EXCEPT ![Co(j)].status = "COMPLETED"]
                        ELSE company
          /\ run' = IF ok THEN Goto(j, "returned") ELSE Catch(j, "markCoDone")
    /\ UNCHANGED <<fuserVars, hunterVars, engineVars>>
    /\ UNCHANGED <<job, nJobs, results, routeVars, cancelVars, degraded, resp,
                   lastUpsert>>

\* catch: researchJob.update({status: 'FAILED', errorMessage: error.message});
\* when this update throws, its own error leaves executeResearch
RunCatchJob(j) ==
    /\ At(j, "catchJob")
    /\ \E ok \in StoreOutcomes :
          /\ Fault(ok)
          /\ job' = IF ok
                    THEN [job EXCEPT ![j].status = "FAILED",
                                     ![j].errorMessage = run[j].err]
                    ELSE job
          /\ run' = IF ok THEN Goto(j, "catchCo") ELSE Throw(j, "catchJob")
    /\ UNCHANGED <<fuserVars, hunterVars, engineVars>>
    /\ UNCHANGED <<company, nJobs, results, routeVars, cancelVars, degraded, resp,
                   lastUpsert>>

\* catch: company.update({status: 'FAILED'}); throw error
RunCatchCompany(j) ==
    /\ At(j, "catchCo")
    /\ \E ok \in StoreOutcomes :
          /\ Fault(ok)
          /\ company' = IF ok THEN [company EXCEPT ![Co(j)].status = "FAILED"]
                        ELSE company
          /\ run' = IF ok THEN Throw(j, run[j].err) ELSE Throw(j, "catchCo")
    /\ UNCHANGED <<fuserVars, hunterVars, engineVars>>
    /\ UNCHANGED <<job, nJobs, results, routeVars, cancelVars, degraded, resp,
                   lastUpsert>>

\* ------------------------------- orchestrator/index.ts: intelligence fuser
\* WebsiteAnalysisResult.status
WebsiteStatuses == {"live", "down", "redirect", "error"}
\* WebsiteAnalysisResult.confidenceScore: 0, or 50 plus the boni, at most 100
WebsiteConfidences == {0, 55, 100}
\* SocialProfile.confidenceScore after the verification pass
ProfileConfidences == {30, 100}
\* the platforms that huntSocialProfiles searches, in the order of its result
PlatformNames == <<"linkedin", "facebook", "instagram", "twitter", "youtube", "tiktok">>
\* SocialHuntResult.socialPresenceScore, BusinessAnalysisResult.digitalMaturityScore
PresenceScores == {0, 60}
MaturityScores == {0, 40}

\* WebsiteAnalysisResult: contactInfo is optional; emails and phones by number
ContactInfos == [emails : 0..MaxContacts, phones : 0..MaxContacts]
WebsiteResults ==
    [status : WebsiteStatuses,
     contactInfo : {Null} \cup {Some(c) : c \in ContactInfos},
     confidenceScore : WebsiteConfidences]

\* the profiles found, in the order of the platforms searched
RECURSIVE ProfileLists(_)
ProfileLists(n) ==
    IF n = 0 THEN {<<>>}
    ELSE LET rest == ProfileLists(n - 1)
             name == PlatformNames[MaxPlatforms - n + 1]
         IN  rest \cup {<<[platform |-> name, confidenceScore |-> c]>> \o r :
                          c \in ProfileConfidences, r \in rest}

SocialResults ==
    [platforms : ProfileLists(MaxPlatforms), socialPresenceScore : PresenceScores]
\* BusinessAnalysisResult: the opportunities by number
BusinessResults ==
    [opportunities : 0..MaxOpportunities, digitalMaturityScore : MaturityScores]

Nullable(S) == {Null} \cup {Some(v) : v \in S}

\* intel.websiteData?.contactInfo?.emails?.length (undefined counts as 0)
EmailsLength(i) ==
    IF IsNull(i.websiteData) \/ IsNull(Get(i.websiteData).contactInfo) THEN 0
    ELSE Get(Get(i.websiteData).contactInfo).emails
PhonesLength(i) ==
    IF IsNull(i.websiteData) \/ IsNull(Get(i.websiteData).contactInfo) THEN 0
    ELSE Get(Get(i.websiteData).contactInfo).phones
\* intel.websiteData?.status === 'live'
WebsiteLive(i) == ~IsNull(i.websiteData) /\ Get(i.websiteData).status = "live"
\* intel.socialData.platforms.length, for socialData that is not null
PlatformsLength(i) == Len(Get(i.socialData).platforms)

\* mutation of calculateCompleteness: the last criterion asks for more than two
\* platforms
calculateCompletenessOffByOne(i) ==
    LET website == IF WebsiteLive(i) THEN 30 ELSE 0
        social == IF ~IsNull(i.socialData) /\ PlatformsLength(i) > 0 THEN 20 ELSE 0
        news == IF ~IsNull(i.newsData) /\ Get(i.newsData).totalMentions > 0
                THEN 15 ELSE 0
        business == IF ~IsNull(i.businessData) /\ Get(i.businessData).opportunities > 0
                    THEN 15 ELSE 0
        contactInfo == IF EmailsLength(i) # 0 \/ PhonesLength(i) # 0 THEN 10 ELSE 0
        socialProfiles == IF ~IsNull(i.socialData) /\ PlatformsLength(i) > 2
                          THEN 10 ELSE 0
    IN  website + social + news + business + contactInfo + socialProfiles

calculateCompleteness(i) ==
    LET website == IF WebsiteLive(i) THEN 30 ELSE 0
        social == IF ~IsNull(i.socialData) /\ PlatformsLength(i) > 0 THEN 20 ELSE 0
        news == IF ~IsNull(i.newsData) /\ Get(i.newsData).totalMentions > 0
                THEN 15 ELSE 0
        business == IF ~IsNull(i.businessData) /\ Get(i.businessData).opportunities > 0
                    THEN 15 ELSE 0
        contactInfo == IF EmailsLength(i) # 0 \/ PhonesLength(i) # 0 THEN 10 ELSE 0
        socialProfiles == IF ~IsNull(i.socialData) /\ PlatformsLength(i) >= 2
                          THEN 10 ELSE 0
    IN  website + social + news + business + contactInfo + socialProfiles

\* if (cond) gaps.push(text)
Push(gaps, cond, text) == IF cond THEN Append(gaps, text) ELSE gaps

\* platforms.find((p) => p.platform === 'linkedin') finds a profile
FindsLinkedIn(i) ==
    /\ ~IsNull(i.socialData)
    /\ \E x \in 1..PlatformsLength(i) : Get(i.socialData).platforms[x].platform = "linkedin"

\* mutation of identifyDataGaps: the LinkedIn gap is only reported when the
\* social stage produced a result
identifyDataGapsChained(i) ==
    LET g1 == Push(<<>>, IsNull(i.websiteData) \/ Get(i.websiteData).status # "live",
                   "Website not accessible")
        g2 == Push(g1, EmailsLength(i) = 0, "No email found")
        g3 == Push(g2, IsNull(i.socialData) \/ PlatformsLength(i) = 0,
                   "No social profiles found")
        g4 == Push(g3, ~IsNull(i.socialData) /\ ~FindsLinkedIn(i),
                   "LinkedIn profile not found")
        g5 == Push(g4, IsNull(i.newsData) \/ Get(i.newsData).totalMentions = 0,
                   "No news coverage found")
    IN  g5

identifyDataGaps(i) ==
    LET g1 == Push(<<>>, IsNull(i.websiteData) \/ Get(i.websiteData).status # "live",
                   "Website not accessible")
        g2 == Push(g1, EmailsLength(i) = 0, "No email found")
        g3 == Push(g2, IsNull(i.socialData) \/ PlatformsLength(i) = 0,
                   "No social profiles found")
        g4 == Push(g3, ~FindsLinkedIn(i), "LinkedIn profile not found")
        g5 == Push(g4, IsNull(i.newsData) \/ Get(i.newsData).totalMentions = 0,
                   "No news coverage found")
    IN  g5

\* mutation of MathRound: Math.floor
MathFloor(num, den) == num \div den

\* Math.round of the fraction num / den (den > 0): the nearest integer, a half
\* rounds up
MathRound(num, den) == (2 * num + den) \div (2 * den)

\* platforms.reduce((sum, p) => sum + p.confidenceScore, 0)
RECURSIVE Reduce(_)
Reduce(platforms) ==
    IF platforms = <<>> THEN 0
    ELSE Reduce(SubSeq(platforms, 1, Len(platforms) - 1))
         + platforms[Len(platforms)].confidenceScore

\* Math.round(website / 2 + sum / length / 4 + 25), where website is
\* websiteData?.confidenceScore || 0, sum is the reduce || 0 and length is
\* platforms.length || 1; as one fraction over 4 * length
confidence(i) ==
    LET website == IF IsNull(i.websiteData) THEN 0
                   ELSE Get(i.websiteData).confidenceScore
        sum == IF IsNull(i.socialData) THEN 0 ELSE Reduce(Get(i.socialData).platforms)
        length == IF IsNull(i.socialData) \/ PlatformsLength(i) = 0 THEN 1
                  ELSE PlatformsLength(i)
    IN  MathRound(2 * website * length + sum + 100 * length, 4 * length)

Min(a, b) == IF a < b THEN a ELSE b
Max(a, b) == IF a > b THEN a ELSE b

\* x || d for a number x: d when x is 0
OrElse(x, d) == IF x = 0 THEN d ELSE x

\* aggregateNewsReputation: what it counted (the articles by sentiment, the
\* distinct risk flags found in them) and whether an exception ended the
\* search early, which leaves the score at its initial 50
NewsCounts ==
    {c \in [positiveCount : 0..MaxMentions, negativeCount : 0..MaxMentions,
            neutralCount : 0..MaxMentions, riskFlags : 0..MaxRiskFlags,
            failed : BOOLEAN] :
        /\ c.positiveCount + c.negativeCount + c.neutralCount <= MaxMentions
        /\ c.positiveCount + c.negativeCount + c.neutralCount = 0 => c.riskFlags = 0}

\* "Calculate reputation score": round(50 + positiveRatio * 40 - negativeRatio * 40),
\* clamped to 0..100, less 10 per risk flag, not below 0 (the ratios of so few
\* mentions are exact)
ReputationScore(c) ==
    LET total == c.positiveCount + c.negativeCount + c.neutralCount
        rounded == MathRound(50 * total + 40 * c.positiveCount - 40 * c.negativeCount,
                             total)
    IN  IF total > 0 /\ ~c.failed
        THEN Max(0, Max(0, Min(100, rounded)) - c.riskFlags * 10)
        ELSE 50

NewsResults ==
    {[totalMentions |-> c.positiveCount + c.negativeCount + c.neutralCount,
      reputationScore |-> ReputationScore(c)] : c \in NewsCounts}

\* executeResearch, "Calculate final scores": the scores and the gaps of intel
Scored(i) ==
    LET a == [i EXCEPT
                !.digitalMaturityScore =
                    IF IsNull(i.businessData) THEN 0
                    ELSE Get(i.businessData).digitalMaturityScore,
                !.socialPresenceScore =
                    IF IsNull(i.socialData) THEN 0
                    ELSE Get(i.socialData).socialPresenceScore,
                !.reputationScore =
                    IF IsNull(i.newsData) THEN 50
                    ELSE OrElse(Get(i.newsData).reputationScore, 50),
                !.opportunityScore =
                    IF IsNull(i.businessData) \/ Get(i.businessData).opportunities = 0
                    THEN 0
                    ELSE Min(Get(i.businessData).opportunities * 15, 100)]
        b == [a EXCEPT !.completenessScore = calculateCompleteness(a)]
        c == [b EXCEPT !.confidenceScore = confidence(b)]
    IN  [c EXCEPT !.dataGaps = identifyDataGaps(c)]

\* the fuser runs on the outputs of the four stages
Fuse ==
    /\ ~fused
    /\ intel' = Scored(intel)
    /\ fused' = TRUE
    /\ UNCHANGED <<researchVars, faults, engineVars, hunterVars>>


\* ------------------------------------------ prisma/seed.ts: evolution engine
SourceNames == DOMAIN sourceConfig
CallIds == DOMAIN calls

RECURSIVE Pow(_, _)
Pow(b, n) == IF n = 0 THEN 1 ELSE b * Pow(b, n - 1)

\* successRate is held in units of 1 / RateScale: a success adds a tenth of
\* the distance to 100, so that the rate of a row that started on an integer
\* is an exact multiple of the unit after as many successes as there are calls
RateScale == Pow(10, Cardinality(CallIds))
\* avgQualityScore is held in units of 1 / QualityScale: a success halves
QualityScale == Pow(2, Cardinality(CallIds))

\* durationMs and dataQualityScore handed to logSourceSuccess
Durations == {0, 1501}
Qualities == {0, 70}
\* completenessScore handed to logResearchComplete
Completeness == {85}

\* the rows that exist before the first call: successRate of the examples
SeedRates == {4, 25, 80}
SeedRow(rate) ==
    [successRate |-> rate * RateScale, isEnabled |-> rate > 20,
     avgDurationMs |-> 1000, avgQualityScore |-> 50 * QualityScale,
     currentDailyUsage |-> 0, priority |-> 5, requestsPerMinute |-> 10,
     delayBetweenMs |-> 6000, dailyLimit |-> 500]
SeedRows == {SeedRow(rate) : rate \in SeedRates}

NoCall == [op |-> "none", source |-> 0, durationMs |-> 0, qualityScore |-> 0,
           completenessScore |-> Null, pc |-> "idle", existing |-> Null,
           eventId |-> 0, wrote |-> "none", error |-> ""]

\* a call of one of the three logging functions: it is at its first await,
\* prisma.evolutionLog.create
NewCall(op, source, durationMs, qualityScore) ==
    [NoCall EXCEPT !.op = op, !.source = source, !.durationMs = durationMs,
                   !.qualityScore = qualityScore, !.pc = "create"]

\* calls take the slots in order
Free(c) == calls[c].pc = "idle" /\ \A b \in CallIds : b < c => calls[b].pc # "idle"

logSourceSuccess(c, source, durationMs, dataQualityScore) ==
    /\ Free(c)
    /\ calls' = [calls EXCEPT ![c] =
                    NewCall("SOURCE_SUCCESS", source, durationMs, dataQualityScore)]
    /\ UNCHANGED <<researchVars, streak, insights, faults, fuserVars, hunterVars,
                   sourceConfig, evolutionLog>>

\* updateSourceMetrics(source, false, 0, 0) follows the event
logSourceFailure(c, source) ==
    /\ Free(c)
    /\ calls' = [calls EXCEPT ![c] = NewCall("SOURCE_FAILURE", source, 0, 0)]
    /\ UNCHANGED <<researchVars, streak, insights, faults, fuserVars, hunterVars,
                   sourceConfig, evolutionLog>>

logResearchComplete(c, completenessScore) ==
    /\ Free(c)
    /\ calls' = [calls EXCEPT ![c] =
                    [NewCall("RESEARCH_COMPLETE", 0, 0, 0)
                       EXCEPT !.completenessScore = Some(completenessScore)]]
    /\ UNCHANGED <<researchVars, streak, insights, faults, fuserVars, hunterVars,
                   sourceConfig, evolutionLog>>

\* the row that prisma.evolutionLog.create adds for call c; a column that the
\* call does not give is null (durationMs, completenessScore) or of no use to
\* any reader (dataQualityScore): only logSourceSuccess gives durationMs
EventRow(eventType, source, durationMs, dataQualityScore, completenessScore) ==
    [eventType |-> eventType, source |-> source, durationMs |-> durationMs,
     dataQualityScore |-> dataQualityScore, completenessScore |-> completenessScore]
Event(c) ==
    EventRow(calls[c].op, calls[c].source,
             IF calls[c].op = "SOURCE_SUCCESS" THEN Some(calls[c].durationMs) ELSE Null,
             calls[c].qualityScore, calls[c].completenessScore)

\* mutation of CreateEvent: the newest event is put first
CreateEventFirst(log, e) == <<e>> \o log

\* prisma.evolutionLog.create
CreateEvent(log, e) == Append(log, e)

\* mutation of LogCatch: the logging function has no try/catch
LogRethrow(call, e) == [call EXCEPT !.pc = "thrown", !.error = e]

\* catch (error) of the logging function: the error of the store operation e
\* is logged, the call returns
LogCatch(call, e) == [call EXCEPT !.pc = "returned", !.error = e]

\* catch (error) of updateSourceMetrics: the error of the store operation e is
\* logged, updateSourceMetrics returns, and so does the logging function
MetricsCatch(call, e) == [call EXCEPT !.pc = "returned", !.error = e]

\* mutation of AfterCreate: logResearchComplete goes on to updateSourceMetrics
AfterCreateMetrics(call, eventId) == [call EXCEPT !.pc = "find", !.eventId = eventId]

\* after the event was appended: logSourceSuccess and logSourceFailure go on
\* to updateSourceMetrics, logResearchComplete returns
AfterCreate(call, eventId) ==
    IF call.op = "RESEARCH_COMPLETE"
    THEN [call EXCEPT !.pc = "returned", !.eventId = eventId]
    ELSE [call EXCEPT !.pc = "find", !.eventId = eventId]

\* the first await of the three logging functions
LogEvent(c) ==
    /\ calls[c].pc = "create"
    /\ \E ok \in StoreOutcomes :
          /\ Fault(ok)
          /\ evolutionLog' = IF ok THEN CreateEvent(evolutionLog, Event(c))
                             ELSE evolutionLog
          /\ calls' = [calls EXCEPT ![c] =
                IF ok THEN AfterCreate(@, Len(evolutionLog) + 1)
                ELSE LogCatch(@, "evolutionLog.create")]
    /\ UNCHANGED <<researchVars, streak, insights, fuserVars, hunterVars, sourceConfig>>

\* updateSourceMetrics: prisma.sourceConfig.findUnique({where: {sourceName}})
FindExisting(c) ==
    /\ calls[c].pc = "find"
    /\ \E ok \in StoreOutcomes :
          /\ Fault(ok)
          /\ calls' = [calls EXCEPT ![c] =
                IF ok THEN [@ EXCEPT !.pc = "write",
                                     !.existing = sourceConfig[calls[c].source]]
                ELSE MetricsCatch(@, "sourceConfig.findUnique")]
    /\ UNCHANGED <<researchVars, streak, insights, fuserVars, hunterVars,
                   sourceConfig, evolutionLog>>

\* mutation of NewSuccessRate: a failure takes a tenth of the rate away
NewSuccessRateTenth(rate, success) ==
    IF success
    THEN Min(100 * RateScale, rate + (100 * RateScale - rate) \div 10)
    ELSE Max(0, rate - rate \div 10)

\* mutation of NewSuccessRate: a success adds a twentieth of the distance
NewSuccessRateTwentieth(rate, success) ==
    IF success
    THEN Min(100 * RateScale, rate + (100 * RateScale - rate) \div 20)
    ELSE Max(0, rate - 10 * RateScale)

\* mutation of NewSuccessRate: no Math.min and no Math.max
NewSuccessRateUnclamped(rate, success) ==
    IF success THEN rate + (100 * RateScale - rate) \div 10 ELSE rate - 10 * RateScale

\* success ? Math.min(100, rate + (100 - rate) * 0.1) : Math.max(0, rate - 10)
NewSuccessRate(rate, success) ==
    IF success
    THEN Min(100 * RateScale, rate + (100 * RateScale - rate) \div 10)
    ELSE Max(0, rate - 10 * RateScale)

\* mutation of NewAvgDuration: Math.floor
NewAvgDurationFloor(avg, success, durationMs) ==
    IF success /\ durationMs > 0 THEN (avg + durationMs) \div 2 ELSE avg

\* success && durationMs > 0 ? Math.round((avg + durationMs) / 2) : avg
NewAvgDuration(avg, success, durationMs) ==
    IF success /\ durationMs > 0 THEN MathRound(avg + durationMs, 2) ELSE avg

\* success && qualityScore > 0 ? (avg + qualityScore) / 2 : avg
NewAvgQuality(avg, success, qualityScore) ==
    IF success /\ qualityScore > 0
    THEN (avg + qualityScore * QualityScale) \div 2
    ELSE avg

\* mutation of UpdatedRow: the counter is read, incremented and written back
UpdatedRowReadIncrement(row, existing, success, durationMs, qualityScore) ==
    LET newSuccessRate == NewSuccessRate(existing.successRate, success)
    IN  [row EXCEPT
           !.successRate = newSuccessRate,
           !.avgDurationMs = NewAvgDuration(existing.avgDurationMs, success, durationMs),
           !.avgQualityScore =
               NewAvgQuality(existing.avgQualityScore, success, qualityScore),
           !.isEnabled = newSuccessRate > 20 * RateScale,
           !.currentDailyUsage = existing.currentDailyUsage + 1]

\* mutation of UpdatedRow: the data computed from the row as it is when written
UpdatedRowFresh(row, existing, success, durationMs, qualityScore) ==
    LET newSuccessRate == NewSuccessRate(row.successRate, success)
    IN  [row EXCEPT
           !.successRate = newSuccessRate,
           !.avgDurationMs = NewAvgDuration(row.avgDurationMs, success, durationMs),
           !.avgQualityScore = NewAvgQuality(row.avgQualityScore, success, qualityScore),
           !.isEnabled = newSuccessRate > 20 * RateScale,
           !.currentDailyUsage = @ + 1]

\* prisma.sourceConfig.update: the data computed from the row that was read;
\* currentDailyUsage: {increment: 1} is applied by the store to the row itself
UpdatedRow(row, existing, success, durationMs, qualityScore) ==
    LET newSuccessRate == NewSuccessRate(existing.successRate, success)
    IN  [row EXCEPT
           !.successRate = newSuccessRate,
           !.avgDurationMs = NewAvgDuration(existing.avgDurationMs, success, durationMs),
           !.avgQualityScore =
               NewAvgQuality(existing.avgQualityScore, success, qualityScore),
           !.isEnabled = newSuccessRate > 20 * RateScale,
           !.currentDailyUsage = @ + 1]

\* mutation of CreatedRow: the creating event counts as a use
CreatedRowCounted(success, durationMs, qualityScore) ==
    [successRate |-> IF success THEN 100 * RateScale ELSE 0,
     isEnabled |-> TRUE,
     avgDurationMs |-> OrElse(durationMs, 0),
     avgQualityScore |-> OrElse(qualityScore, 50) * QualityScale,
     currentDailyUsage |-> 1, priority |-> 5, requestsPerMinute |-> 10,
     delayBetweenMs |-> 6000, dailyLimit |-> 500]

\* prisma.sourceConfig.create: the row of a source seen for the first time
\* (currentDailyUsage is not given and takes the default of the column)
CreatedRow(success, durationMs, qualityScore) ==
    [successRate |-> IF success THEN 100 * RateScale ELSE 0,
     isEnabled |-> TRUE,
     avgDurationMs |-> OrElse(durationMs, 0),
     avgQualityScore |-> OrElse(qualityScore, 50) * QualityScale,
     currentDailyUsage |-> 0, priority |-> 5, requestsPerMinute |-> 10,
     delayBetweenMs |-> 6000, dailyLimit |-> 500]

\* updateSourceMetrics, if (existing): prisma.sourceConfig.update
UpdateSource(c) ==
    /\ calls[c].pc = "write"
    /\ ~IsNull(calls[c].existing)
    /\ LET source == calls[c].source
           success == calls[c].op = "SOURCE_SUCCESS"
       IN  \E ok \in StoreOutcomes :
              /\ Fault(ok)
              /\ sourceConfig' =
                    IF ok
                    THEN [sourceConfig EXCEPT ![source] =
                            Some(UpdatedRow(Get(@), Get(calls[c].existing), success,
                                            calls[c].durationMs, calls[c].qualityScore))]
                    ELSE sourceConfig
              /\ calls' = [calls EXCEPT ![c] =
                    IF ok THEN [@ EXCEPT !.pc = "returned", !.wrote = "update"]
                    ELSE MetricsCatch(@, "sourceConfig.update")]
    /\ UNCHANGED <<researchVars, streak, insights, fuserVars, hunterVars, evolutionLog>>

\* mutation of CreateSource: sourceName is not a unique key, the later create
\* replaces the row
CreateSourceAgain(c) ==
    /\ calls[c].pc = "write"
    /\ IsNull(calls[c].existing)
    /\ LET source == calls[c].source
           success == calls[c].op = "SOURCE_SUCCESS"
       IN  \E ok \in StoreOutcomes :
              /\ Fault(ok)
              /\ sourceConfig' =
                    IF ok
                    THEN [sourceConfig EXCEPT ![source] =
                            Some(CreatedRow(success, calls[c].durationMs,
                                            calls[c].qualityScore))]
                    ELSE sourceConfig
              /\ calls' = [calls EXCEPT ![c] =
                    IF ok THEN [@ EXCEPT !.pc = "returned", !.wrote = "create"]
                    ELSE MetricsCatch(@, "sourceConfig.create")]
    /\ UNCHANGED <<researchVars, streak, insights, fuserVars, hunterVars, evolutionLog>>

\* updateSourceMetrics, else: prisma.sourceConfig.create; sourceName is the
\* unique key, so the create throws when a row has appeared since the read
CreateSource(c) ==
    /\ calls[c].pc = "write"
    /\ IsNull(calls[c].existing)
    /\ LET source == calls[c].source
           success == calls[c].op = "SOURCE_SUCCESS"
       IN  \E ok \in StoreOutcomes :
              LET done == ok /\ IsNull(sourceConfig[source])
              IN  /\ Fault(ok)
                  /\ sourceConfig' =
                        IF done
                        THEN [sourceConfig EXCEPT ![source] =
                                Some(CreatedRow(success, calls[c].durationMs,
                                                calls[c].qualityScore))]
                        ELSE sourceConfig
                  /\ calls' = [calls EXCEPT ![c] =
                        IF done THEN [@ EXCEPT !.pc = "returned", !.wrote = "create"]
                        ELSE MetricsCatch(@, "sourceConfig.create")]
    /\ UNCHANGED <<researchVars, streak, insights, fuserVars, hunterVars, evolutionLog>>

\* ----------------- prisma/seed.ts: successRate in double-precision arithmetic
\* successRate is a double.  A double s with 64 <= s <= 100 is a multiple of
\* 2^-46 (one unit in the last place), so it is held as the gap 100 - s counted
\* in these units, gap = hi * Limb + lo with Limb = 2^23.
Limb == Pow(2, 23)
GapOf(rate) == [hi |-> (100 - rate) * Limb, lo |-> 0]

\* the quotient of a gap by 10, and the remainder
Tenth(g) ==
    LET t == (g.hi % 10) * Limb + g.lo
    IN  [hi |-> g.hi \div 10, lo |-> t \div 10, rem |-> t % 10]

PlusOne(g) == IF g.lo + 1 = Limb THEN [hi |-> g.hi + 1, lo |-> 0]
              ELSE [hi |-> g.hi, lo |-> g.lo + 1]
Minus(g, h) == IF g.lo >= h.lo THEN [hi |-> g.hi - h.hi, lo |-> g.lo - h.lo]
               ELSE [hi |-> g.hi - h.hi - 1, lo |-> g.lo + Limb - h.lo]

\* by how many units the sum s + (100 - s) * 0.1 lies above s once rounded to a
\* double.  100 - s is exact; its product with the double 0.1 is within 0.03
\* units of gap / 10, and is exactly gap / 10 when gap ends in 5; the sum is
\* rounded to the nearest multiple of the unit, a tie to the even multiple
\* (the multiples of 100 are even, so the even sum is the one with an even gap)
Increment(g) ==
    LET q == Tenth(g)
        down == [hi |-> q.hi, lo |-> q.lo]
    IN  IF q.rem < 5 THEN down
        ELSE IF q.rem > 5 THEN PlusOne(down)
        ELSE IF q.lo % 2 = 1 THEN down ELSE PlusOne(down)

\* mutation of SuccessGap: (100 - rate) * 0.2
SuccessGapFifth(g) == Minus(Minus(g, Increment(g)), Increment(g))

\* Math.min(100, rate + (100 - rate) * 0.1) on the gap; the sum stays below 100
SuccessGap(g) == Minus(g, Increment(g))

\* the rates from which the run starts: a row created at 100 by a first
\* success and taken down by one to three failures
StreakStarts == {70, 80, 90}

NoStreak == [start |-> 100, n |-> 0, gap |-> GapOf(100)]

\* logSourceSuccess on the row, all of it: the event, the read and the update
\* of the row, with no other call in between
SuccessEvent ==
    /\ streak.start # 100
    /\ streak.n < MaxStreak
    /\ streak' = [streak EXCEPT !.n = @ + 1, !.gap = SuccessGap(@)]
    /\ UNCHANGED <<researchVars, faults, fuserVars, hunterVars, sourceConfig, evolutionLog, calls,
                   insights>>

\* ------------------------------ prisma/seed.ts: analyzeLearningInsights
\* mutation of FindManyDesc: no `where`, the rows of every eventType
RECURSIVE FindManyAny(_, _)
FindManyAny(log, eventType) ==
    IF log = <<>> THEN <<>>
    ELSE <<log[Len(log)]>> \o FindManyAny(SubSeq(log, 1, Len(log) - 1), eventType)

\* the rows of one eventType, orderBy timestamp desc: the newest first (a row
\* created later has the later timestamp)
RECURSIVE FindManyDesc(_, _)
FindManyDesc(log, eventType) ==
    IF log = <<>> THEN <<>>
    ELSE LET newest == log[Len(log)]
             older == FindManyDesc(SubSeq(log, 1, Len(log) - 1), eventType)
         IN  IF newest.eventType = eventType THEN <<newest>> \o older ELSE older

\* take: n
Take(rows, n) == SubSeq(rows, 1, Min(n, Len(rows)))
\* Array.prototype.slice(from, to)
Slice(rows, from, to) == SubSeq(rows, Min(from, Len(rows)) + 1, Min(to, Len(rows)))

\* reduce((s, r) => s + (r.completenessScore || 0), 0)
RECURSIVE SumCompleteness(_)
SumCompleteness(rows) ==
    IF rows = <<>> THEN 0
    ELSE SumCompleteness(SubSeq(rows, 1, Len(rows) - 1))
         + (IF IsNull(rows[Len(rows)].completenessScore) THEN 0
            ELSE Get(rows[Len(rows)].completenessScore))

\* reduce((sum, log) => sum + (log.durationMs || 0), 0)
RECURSIVE SumDuration(_)
SumDuration(rows) ==
    IF rows = <<>> THEN 0
    ELSE SumDuration(SubSeq(rows, 1, Len(rows) - 1))
         + (IF IsNull(rows[Len(rows)].durationMs) THEN 0
            ELSE Get(rows[Len(rows)].durationMs))

\* firstAvg and secondAvg are doubles.  A double near the fraction t / d, for
\* integers t and d, is held as [num |-> t, den |-> d, err |-> n]: the number
\* t / d + n / (d * 2^Prec(t, d)), a multiple of 2^-Prec(t, d), where
\* 2^-Prec(t, d) is the unit in the last place of the doubles of the size of
\* t / d.
Abs(t) == IF t < 0 THEN 0 - t ELSE t
\* the exponent e with 2^e <= |t| / d < 2^(e + 1), for 1 / 128 <= |t| / d < 256
Binade(t, d) ==
    CHOOSE e \in -7..7 :
        /\ Abs(t) * 128 >= d * Pow(2, e + 7)
        /\ Abs(t) * 128 < d * Pow(2, e + 8)
Prec(t, d) == 52 - Binade(t, d)

\* 2^p modulo m
RECURSIVE PowMod(_, _)
PowMod(p, m) == IF p = 0 THEN 1 % m ELSE (2 * PowMod(p - 1, m)) % m

Zero(d) == [num |-> 0, den |-> d, err |-> 0]

\* the double nearest to t / d + n / (d * 2^p), for t > 0 and |n| <= d: with
\* q = Prec(t, d), t * 2^q = d * Q + R, and the number is
\* Q + R / d + n / (d * 2^(p - q)) units; a tie goes to the even multiple of
\* the unit
RoundToDouble(t, n, p, d) ==
    LET q == Prec(t, d)
        R == ((t % d) * PowMod(q, d)) % d
        odd == (((t % (2 * d)) * PowMod(q, 2 * d)) % (2 * d)) \div d = 1
        D == d * Pow(2, p - q)
        N == R * Pow(2, p - q) + n
        up == 2 * N > D \/ (2 * N = D /\ odd)
    IN  IF q >= p THEN [num |-> t, den |-> d, err |-> n * Pow(2, q - p)]
        ELSE [num |-> t, den |-> d, err |-> (IF up THEN d ELSE 0) - R]

Negated(x) == [num |-> 0 - x.num, den |-> x.den, err |-> 0 - x.err]

\* sum / length: the quotient of two integers, correctly rounded, held over the
\* denominator d, a multiple of length (the exact quotient is
\* t / d + 0 / (d * 2^p) for every p)
Divide(sum, length, d) ==
    LET t == sum * (d \div length)
    IN  IF sum = 0 THEN Zero(d) ELSE RoundToDouble(t, 0, Prec(t, d) + 1, d)

\* x + 5 and x - 5 (c = 5 or -5): the exact sum, correctly rounded.  The sum is
\* 0 only when x is the double 5 or -5.
Plus(x, c) ==
    LET t == x.num + c * x.den
        p == IF x.num = 0 THEN Prec(t, x.den) ELSE Prec(x.num, x.den)
    IN  IF t = 0 THEN Zero(x.den)
        ELSE IF t > 0 THEN RoundToDouble(t, x.err, p, x.den)
        ELSE Negated(RoundToDouble(0 - t, 0 - x.err, p, x.den))

\* x < y, for x and y over one denominator: the errors are far below 1 / den
Less(x, y) == x.num < y.num \/ (x.num = y.num /\ x.err < y.err)

\* "Analyze quality trend": recentLogs holds at most 20 rows, the second window
\* the rows after the tenth.  Both means are held over the denominator
\* firstHalf.length * secondHalf.length.
QualityTrend(recentLogs) ==
    LET firstHalf == Slice(recentLogs, 0, 10)
        secondHalf == Slice(recentLogs, 10, 20)
        d == Len(firstHalf) * Max(Len(secondHalf), 1)
        firstAvg == Divide(SumCompleteness(firstHalf), Len(firstHalf), d)
        secondAvg == IF Len(secondHalf) > 0
                     THEN Divide(SumCompleteness(secondHalf), Len(secondHalf), d)
                     ELSE firstAvg
    IN  IF Len(recentLogs) < 10 THEN "stable"
        ELSE IF Less(Plus(secondAvg, 5), firstAvg) THEN "improving"
        ELSE IF Less(firstAvg, Plus(secondAvg, -5)) THEN "declining"
        ELSE "stable"

\* the enumerations of a set
RECURSIVE Enumerations(_)
Enumerations(S) ==
    IF S = {} THEN {<<>>}
    ELSE UNION {{<<x>> \o rest : rest \in Enumerations(S \ {x})} : x \in S}

SuccessRateOf(name) == Get(sourceConfig[name]).successRate

\* orderBy: {successRate: 'desc'} (descending) or 'asc'; the store puts rows of
\* equal rate in any order
OrderBySuccessRate(S, descending) ==
    {names \in Enumerations(S) :
        \A a, b \in 1..Len(names) :
            a < b => IF descending
                     THEN SuccessRateOf(names[a]) >= SuccessRateOf(names[b])
                     ELSE SuccessRateOf(names[a]) <= SuccessRateOf(names[b])}

\* where: {isEnabled: true, successRate: {gte: 70}}
TopSources ==
    {name \in SourceNames :
        /\ ~IsNull(sourceConfig[name])
        /\ Get(sourceConfig[name]).isEnabled
        /\ SuccessRateOf(name) >= 70 * RateScale}
\* where: {successRate: {lt: 50}}
BadSources ==
    {name \in SourceNames :
        ~IsNull(sourceConfig[name]) /\ SuccessRateOf(name) < 50 * RateScale}

NoInsights ==
    [topSources |-> <<>>, problematicSources |-> <<>>, avgProcessingTime |-> 0,
     qualityTrend |-> "stable", recommendations |-> <<>>]

\* what analyzeLearningInsights returns when its store operation number
\* `failed` throws (0: none does): catch (error) keeps what was set before.
\* top and bad are the rows as the store ordered them.
Insights(top, bad, failed) ==
    LET recentLogs == Take(FindManyDesc(evolutionLog, "RESEARCH_COMPLETE"), 20)
        a == IF failed = 1 THEN NoInsights
             ELSE [NoInsights EXCEPT !.topSources = Take(top, 5)]
        b == IF failed \in {1, 2} THEN a
             ELSE [a EXCEPT !.problematicSources = Take(bad, 5)]
        c == IF failed # 0 THEN b
             ELSE [b EXCEPT
                     !.avgProcessingTime =
                         IF Len(recentLogs) > 0
                         THEN MathRound(SumDuration(recentLogs), Len(recentLogs) * 1000)
                         ELSE 0,
                     !.qualityTrend = QualityTrend(recentLogs)]
        r1 == Push(<<>>, Len(c.problematicSources) > 0, "Consider reviewing")
        r2 == Push(r1, c.qualityTrend = "declining", "Research quality is declining")
        r3 == Push(r2, c.avgProcessingTime > 300, "Processing time is high")
    IN  IF failed # 0 THEN c ELSE [c EXCEPT !.recommendations = r3]

\* the store operation of the call that throws, if one does
FailurePoints == IF faults > 0 THEN 0..3 ELSE {0}

analyzeLearningInsights ==
    /\ IsNull(insights)
    /\ \E failed \in FailurePoints :
          \E top \in OrderBySuccessRate(TopSources, TRUE),
             bad \in OrderBySuccessRate(BadSources, FALSE) :
             /\ faults' = IF failed = 0 THEN faults ELSE faults - 1
             /\ insights' = Some(Insights(top, bad, failed))
    /\ UNCHANGED <<researchVars, fuserVars, hunterVars, sourceConfig, evolutionLog, calls, streak>>

\* the logs handed to analyzeLearningInsights: completion events whose
\* completenessScore is one of a pair, in two windows of 10, after older ones
\* and before a source event; and logs of fewer than 20 completion events
ScorePairs == {<<0, 2>>, <<2, 10>>, <<50, 100>>}
CompletionRow(completenessScore) ==
    EventRow("RESEARCH_COMPLETE", 0, Null, 0, Some(completenessScore))
Window(pair, i) ==
    [x \in 1..10 |-> CompletionRow(IF x <= i THEN pair[1] ELSE pair[2])]
Windows == {Window(pair, i) : pair \in ScorePairs, i \in 0..10}
OlderRows ==
    UNION {[1..n -> {CompletionRow(0), CompletionRow(100)}] : n \in 0..MaxOlder}
SourceRows == {<<>>, <<EventRow("SOURCE_SUCCESS", 1, Some(1501), 70, Null)>>}
Logs ==
    {older \o second \o first \o source :
        older \in OlderRows, second \in Windows, first \in Windows,
        source \in SourceRows}
    \cup {SubSeq(first, 1, n) : first \in Windows, n \in 0..10}
    \cup {SubSeq(second, 1, n) \o first :
             second \in Windows, first \in Windows, n \in 1..9}

\* ------------------------------------------------- agents/social-hunter.ts
\* bestMatch.score of the result that a search matched, in thousandths (0: the
\* result carries no score).  The linkedin search is given every confidence
\* that a score yields, the other searches results without a score.
Scores(p) == IF p = 1 THEN {0, 4, 295} \cup {10 * c : c \in 1..100} ELSE {0}
\* bestMatch.score ? Math.round(bestMatch.score * 100) : 70
InitialConfidence(score) == IF score # 0 THEN MathRound(score, 10) ELSE 70
\* the SocialProfile that searchPlatform returns for a match
Profile(p, score) ==
    [platform |-> PlatformNames[p], verified |-> FALSE,
     confidenceScore |-> InitialConfidence(score)]

\* the promise of one searchPlatform call; threw: searchWithExa threw (history)
Pending == [state |-> "pending", threw |-> FALSE, value |-> Null]
Fulfilled(value) == [state |-> "fulfilled", threw |-> FALSE, value |-> value]
\* mutation of SearchCatch: the error leaves searchPlatform
SearchRethrow == [state |-> "rejected", threw |-> TRUE, value |-> Null]
\* catch (error) of searchPlatform: return null
SearchCatch == [state |-> "fulfilled", threw |-> TRUE, value |-> Null]

\* what searchWithExa and the match do: it throws (no API key, fetch fails,
\* response not ok), nothing matches, or a result matches
SearchKinds == {"threw", "empty", "match"}
searchPlatform(p, kind, score) ==
    IF kind = "threw" THEN SearchCatch
    ELSE IF kind = "empty" THEN Fulfilled(Null)
    ELSE Fulfilled(Some(Profile(p, score)))

\* Promise.all: rejected as soon as one promise is, fulfilled once all are
PromiseAll(promises) ==
    IF \E p \in DOMAIN promises : promises[p].state = "rejected" THEN "rejected"
    ELSE IF \A p \in DOMAIN promises : promises[p].state = "fulfilled" THEN "fulfilled"
    ELSE "pending"

\* profiles.filter((p) => p !== null), in the order of the searches
RECURSIVE Filter(_)
Filter(promises) ==
    IF promises = <<>> THEN <<>>
    ELSE LET last == promises[Len(promises)].value
             rest == Filter(SubSeq(promises, 1, Len(promises) - 1))
         IN  IF IsNull(last) THEN rest ELSE Append(rest, Get(last))

\* the verification pass on one profile
Verified(profile, verified) ==
    [profile EXCEPT
        !.verified = verified,
        !.confidenceScore = IF verified THEN Min(@ + 10, 100) ELSE Max(@ - 20, 30)]

PlatformWeights == <<25, 20, 20, 15, 15, 5>>
WeightOfPlatform(name) ==
    PlatformWeights[CHOOSE p \in DOMAIN PlatformNames : PlatformNames[p] = name]
\* "Calculate social presence score": the weights of the verified profiles
RECURSIVE PresenceScore(_)
PresenceScore(profiles) ==
    IF profiles = <<>> THEN 0
    ELSE PresenceScore(SubSeq(profiles, 1, Len(profiles) - 1))
         + (IF profiles[Len(profiles)].verified
            THEN WeightOfPlatform(profiles[Len(profiles)].platform) ELSE 0)

\* after the verification loop: the result is filled in and returned
HuntReturns(h) ==
    [h EXCEPT !.pc = "returned",
              !.result = [@ EXCEPT
                            !.platforms = h.foundProfiles,
                            !.socialPresenceScore = Min(PresenceScore(h.foundProfiles), 100)]]
\* catch (error) of huntSocialProfiles
HuntCatch(h) ==
    [h EXCEPT !.pc = "returned", !.result.errors = Append(@, "message")]

\* the six searches are started, then `await Promise.all(searchPromises)`
huntSocialProfiles ==
    /\ hunt.pc = "idle"
    /\ searches' = [p \in DOMAIN PlatformNames |-> Pending]
    /\ hunt' = [hunt EXCEPT !.pc = "join"]
    /\ UNCHANGED <<researchVars, faults, fuserVars, engineVars>>

\* one search settles
SearchSettles(p) ==
    /\ p \in DOMAIN searches
    /\ searches[p].state = "pending"
    /\ \E kind \in SearchKinds :
          \E score \in (IF kind = "match" THEN Scores(p) ELSE {0}) :
             searches' = [searches EXCEPT ![p] = searchPlatform(p, kind, score)]
    /\ UNCHANGED <<researchVars, faults, fuserVars, engineVars, hunt>>

\* huntSocialProfiles resumes after Promise.all, up to the first verification
\* (or to the return, when no profile was found)
Join ==
    /\ hunt.pc = "join"
    /\ PromiseAll(searches) # "pending"
    /\ hunt' = IF PromiseAll(searches) = "rejected" THEN HuntCatch(hunt)
               ELSE LET h == [hunt EXCEPT !.foundProfiles = Filter(searches), !.i = 1]
                    IN  IF h.foundProfiles = <<>> THEN HuntReturns(h)
                        ELSE [h EXCEPT !.pc = "verify"]
    /\ UNCHANGED <<researchVars, faults, fuserVars, engineVars, searches>>

\* verifyWithTavily returns for profile i (true also when it has no API key
\* or fails), up to the next verification or to the return
Verify ==
    /\ hunt.pc = "verify"
    /\ \E verified \in BOOLEAN :
          LET h == [hunt EXCEPT !.foundProfiles[hunt.i] = Verified(@, verified)]
          IN  hunt' = IF hunt.i = Len(hunt.foundProfiles) THEN HuntReturns(h)
                      ELSE [h EXCEPT !.i = @ + 1]
    /\ UNCHANGED <<researchVars, faults, fuserVars, engineVars, searches>>

\* ---------------------------------------------------------- specification
Next ==
    \/ \E c \in CompanyIds : StartCheck(c)
    \/ \E c \in CompanyIds : StartReject(c)
    \/ \E c \in CompanyIds : StartCreate(c)
    \/ \E j \in JobIds : StartMark(j)
    \/ \E c \in CompanyIds : Execute(c)
    \/ \E S \in SUBSET CompanyIds : BatchCreate(S)
    \/ \E i \in 1..Len(batchPending) : BatchMark(i)
    \/ \E j \in JobIds : CancelCheck(j)
    \/ \E j \in JobIds : CancelWriteJob(j)
    \/ \E j \in JobIds : CancelWriteCompany(j)
    \/ \E j \in JobIds : RunLoad(j)
    \/ \E j \in JobIds : RunSetRunning(j)
    \/ \E j \in JobIds : RunMarkResearching(j)
    \/ \E j \in JobIds : RunStageStart(j)
    \/ \E j \in JobIds : RunCollaboratorReturns(j)
    \/ \E j \in JobIds : RunStageDone(j)
    \/ \E j \in JobIds : RunUpsert(j)
    \/ \E j \in JobIds : RunMarkJobCompleted(j)
    \/ \E j \in JobIds : RunMarkCompanyCompleted(j)
    \/ \E j \in JobIds : RunCatchJob(j)
    \/ \E j \in JobIds : RunCatchCompany(j)

Spec == Init /\ [][Next]_vars

SpecSubmit == InitSubmit /\ [][Next]_vars

\* the fuser applied to every combination of stage outputs
InitFuse ==
    /\ InitWith(0, 0, 0, 0, 0)
    /\ \E w \in Nullable(WebsiteResults), s \in Nullable(SocialResults),
          n \in Nullable(NewsResults), b \in Nullable(BusinessResults) :
          intel = NewIntel(w, s, n, b)
    /\ fused = FALSE
    /\ EngineIdle
    /\ HunterIdle

NextFuse == Fuse

SpecFuse == InitFuse /\ [][NextFuse]_vars

\* the evolution engine: the rows of the sources exist or not, and the calls
\* of the logging functions interleave at their awaits
InitEngine ==
    /\ InitWith(0, 0, 0, EngineFailures, 0)
    /\ FuserIdle
    /\ calls = [c \in 1..MaxCalls |-> NoCall]
    /\ sourceConfig \in [1..NumSources -> Nullable(SeedRows)]
    /\ evolutionLog = <<>>
    /\ streak = NoStreak
    /\ insights = Null
    /\ HunterIdle

NextEngine ==
    \/ \E c \in CallIds, source \in SourceNames, d \in Durations, q \in Qualities :
          logSourceSuccess(c, source, d, q)
    \/ \E c \in CallIds, source \in SourceNames : logSourceFailure(c, source)
    \/ \E c \in CallIds, completeness \in Completeness : logResearchComplete(c, completeness)
    \/ \E c \in CallIds : LogEvent(c)
    \/ \E c \in CallIds : FindExisting(c)
    \/ \E c \in CallIds : UpdateSource(c)
    \/ \E c \in CallIds : CreateSource(c)

SpecEngine == InitEngine /\ [][NextEngine]_vars

\* one row under a run of consecutive success events
InitSaturate ==
    /\ InitWith(0, 0, 0, 0, 0)
    /\ FuserIdle
    /\ sourceConfig = <<>> /\ evolutionLog = <<>> /\ calls = <<>>
    /\ \E rate \in StreakStarts : streak = [start |-> rate, n |-> 0, gap |-> GapOf(rate)]
    /\ insights = Null
    /\ HunterIdle

NextSaturate == SuccessEvent

SpecSaturate == InitSaturate /\ [][NextSaturate]_vars

\* analyzeLearningInsights on a log of completion events
InitInsights ==
    /\ InitWith(0, 0, 0, InsightFailures, 0)
    /\ FuserIdle
    /\ calls = <<>>
    /\ sourceConfig \in [1..NumSources -> Nullable(SeedRows)]
    /\ evolutionLog \in Logs
    /\ streak = NoStreak
    /\ insights = Null
    /\ HunterIdle

NextInsights == analyzeLearningInsights

SpecInsights == InitInsights /\ [][NextInsights]_vars

\* events for one source whose row exists, processed one after the other: no
\* call begins before the calls before it have returned
Settled == \A c \in CallIds : calls[c].pc \in {"idle", "returned"}
\* the rows before the first event: isEnabled as the last update left it
RecoverRows == {[SeedRow(rate) EXCEPT !.isEnabled = rate > 20] : rate \in 0..MaxSeedRate}

InitRecover ==
    /\ InitWith(0, 0, 0, 0, 0)
    /\ FuserIdle
    /\ HunterIdle
    /\ calls = [c \in 1..MaxCalls |-> NoCall]
    /\ sourceConfig \in [1..NumSources -> {Some(row) : row \in RecoverRows}]
    /\ evolutionLog = <<>>
    /\ streak = NoStreak
    /\ insights = Null

NextRecover ==
    \/ Settled /\ \E c \in CallIds, source \in SourceNames :
                     logSourceSuccess(c, source, 1501, 70)
    \/ Settled /\ \E c \in CallIds, source \in SourceNames : logSourceFailure(c, source)
    \/ \E c \in CallIds : LogEvent(c)
    \/ \E c \in CallIds : FindExisting(c)
    \/ \E c \in CallIds : UpdateSource(c)

SpecRecover == InitRecover /\ [][NextRecover]_vars

\* analyzeLearningInsights on the log that the logging functions built, one
\* event after the other; a source may take 400 seconds
LearnDurations == {1501, 400000}
InitLearn ==
    /\ InitWith(0, 0, 0, InsightFailures, 0)
    /\ FuserIdle
    /\ HunterIdle
    /\ calls = [c \in 1..MaxCalls |-> NoCall]
    /\ sourceConfig \in [1..NumSources -> Nullable(SeedRows)]
    /\ evolutionLog = <<>>
    /\ streak = NoStreak
    /\ insights = Null

NextLearn ==
    \/ Settled /\ \E c \in CallIds, source \in SourceNames, d \in LearnDurations :
                     logSourceSuccess(c, source, d, 70)
    \/ Settled /\ \E c \in CallIds, source \in SourceNames : logSourceFailure(c, source)
    \/ Settled /\ \E c \in CallIds, completeness \in Completeness :
                     logResearchComplete(c, completeness)
    \/ \E c \in CallIds : LogEvent(c)
    \/ \E c \in CallIds : FindExisting(c)
    \/ \E c \in CallIds : UpdateSource(c)
    \/ \E c \in CallIds : CreateSource(c)
    \/ analyzeLearningInsights

SpecLearn == InitLearn /\ [][NextLearn]_vars

\* huntSocialProfiles with its six searches and its verification pass
InitHunt ==
    /\ InitWith(0, 0, 0, 0, 0)
    /\ Idle

NextHunt ==
    \/ huntSocialProfiles
    \/ \E p \in DOMAIN PlatformNames : SearchSettles(p)
    \/ Join
    \/ Verify

SpecHunt == InitHunt /\ [][NextHunt]_vars

\* =================================================================== claims
\* the collaborator call of stage i of run j has returned (the website stage of
\* a company without website makes no call)
Returned(j, i) == Invokes(j, i) => run[j].intel[i] \in Outcomes

ProgressMonotone ==
    [][\A j \in JobIds : job'[j].progress >= job[j].progress]_vars

ProgressMonotoneWitness ==
    \E j \in JobIds : job[j].status = "RUNNING" /\ job[j].progress = 100

\* C3: terminal statuses are absorbing: no step changes a stored status that is
\* COMPLETED, FAILED or CANCELLED.
TerminalAbsorbing ==
    [][\A j \in JobIds : job[j].status \in Terminal => job'[j].status = job[j].status]_vars

CancelDoesNotInterrupt ==
    [][\A j \in JobIds :
          (job[j].status = "RUNNING" /\ job'[j].status = "CANCELLED") => run'[j] = run[j]]_vars

\* a RUNNING job was cancelled before its last stage finished, and the run has
\* since written progress 100 and upserted its record
CancelDoesNotInterruptWitness ==
    \E j \in JobIds :
        /\ cancelMark[j].from = "RUNNING"
        /\ cancelMark[j].progress < 75
        /\ job[j].progress = 100
        /\ run[j].upserts = 1
        /\ \E r \in results : r.writer = j

\* C6: at most one job per company is in a non-terminal status.
OneActiveJobPerCompany ==
    \A c \in CompanyIds :
        Cardinality({j \in JobIds : job[j].companyId = c /\ job[j].status \in NonTerminal}) <= 1

\* the store operations of the try block, by the name the model gives their error
TryOps == {"upsert", "markJobDone", "markCoDone"}
\* the errors that can leave executeResearch
StoreOps == TryOps \cup {"load", "setRunning", "markResearching", "catchJob", "catchCo"}

\* C7: a degraded collaborator result never fails a job: only the failure of a
\* store operation takes a run to the catch block or out by an exception, and a
\* run whose store operations all succeeded and whose job no cancel request
\* wrote returns with the job COMPLETED, the company COMPLETED and exactly one
\* upsert, whatever the collaborators returned.
DegradedNeverFails ==
    [][\A j \in JobIds :
          /\ run'[j].pc \in {"catchJob", "catchCo"} => run'[j].err \in TryOps
          /\ run'[j].pc = "thrown" => run'[j].thrown \in StoreOps
          /\ (run[j].pc # "returned" /\ run'[j].pc = "returned"
                /\ ~run'[j].swallowed /\ cancelMark'[j] = NoMark)
               => /\ job'[j].status = "COMPLETED"
                  /\ company'[job[j].companyId].status = "COMPLETED"
                  /\ run'[j].upserts = 1]_vars

\* every collaborator that was called returned a degraded result
DegradedNeverFailsWitness ==
    \E j \in JobIds :
        /\ At(j, "returned") /\ ~run[j].swallowed /\ cancelMark[j] = NoMark
        /\ \A k \in Stages : run[j].intel[k] \in {"degraded", NoData}
        /\ run[j].intel[4] = "degraded"
        /\ job[j].status = "COMPLETED"
        /\ company[job[j].companyId].status = "COMPLETED"
        /\ \E r \in results : r.writer = j /\ r.intel = run[j].intel

\* C8: when a store operation of executeResearch fails after the job was
\* loaded, the job and the company end FAILED, errorMessage holds the message
\* and the error is re-thrown (stated for runs whose job no cancel request
\* wrote).
StoreFailureMarksFailed ==
    \A j \in JobIds :
        (At(j, "thrown") /\ cancelMark[j] = NoMark /\ cancelJob[j] = 0
           /\ run[j].thrown \in TryOps \cup {"setRunning", "markResearching"})
        => /\ job[j].status = "FAILED"
           /\ job[j].errorMessage = run[j].thrown
           /\ company[job[j].companyId].status = "FAILED"

\* C9: a run that leaves its job FAILED has not upserted a record.
FailedMeansNoUpsert ==
    \A j \in JobIds : job[j].status = "FAILED" => run[j].upserts = 0

RowsOf(c) == {r \in results : r.companyId = c}

\* C10: the store holds at most one record per company, each run issues at
\* most one upsert, and the record of a company is the one the most recent
\* upsert wrote.
OneRecordPerCompany ==
    /\ \A c \in CompanyIds :
          /\ Cardinality(RowsOf(c)) <= 1
          /\ RowsOf(c) = IF lastUpsert[c] = NoRecord THEN {} ELSE {lastUpsert[c]}
    /\ \A j \in JobIds : run[j].upserts <= 1

\* two runs of the same company, both past their upsert, the older job last
OneRecordPerCompanyWitness ==
    \E i, j \in JobIds :
        /\ i < j
        /\ job[i].companyId = job[j].companyId
        /\ At(i, "markJobDone") /\ At(j, "markJobDone")
        /\ run[i].upserts = 1 /\ run[j].upserts = 1
        /\ lastUpsert[job[i].companyId].writer = i
        /\ Cardinality(results) = 1

\* ---------------------------------------------------------------- fuser
\* the platforms found by the social stage (none when it produced no result)
FoundPlatforms ==
    IF intel.socialData = <<>> THEN <<>> ELSE intel.socialData[1].platforms

\* the six criteria of the completeness score: weight, and whether it holds
Criteria ==
    << <<30, intel.websiteData # <<>> /\ intel.websiteData[1].status = "live">>,
       <<20, Len(FoundPlatforms) >= 1>>,
       <<15, intel.newsData # <<>> /\ intel.newsData[1].totalMentions >= 1>>,
       <<15, intel.businessData # <<>> /\ intel.businessData[1].opportunities >= 1>>,
       <<10, /\ intel.websiteData # <<>>
             /\ intel.websiteData[1].contactInfo # <<>>
             /\ intel.websiteData[1].contactInfo[1].emails
                  + intel.websiteData[1].contactInfo[1].phones >= 1>>,
       <<10, Len(FoundPlatforms) >= 2>> >>

RECURSIVE WeightOf(_, _)
WeightOf(criteria, n) ==
    IF n = 0 THEN 0
    ELSE (IF criteria[n][2] THEN criteria[n][1] ELSE 0) + WeightOf(criteria, n - 1)

\* C11: for every combination of the four stage outputs, completenessScore is
\* the sum of the weights of the criteria that hold (30 website live, 20 one
\* platform, 15 one news mention, 15 one opportunity, 10 a contact email or
\* phone, 10 two platforms), and lies in 0..100.
CompletenessIsWeightedSum ==
    fused => /\ intel.completenessScore = WeightOf(Criteria, 6)
             /\ intel.completenessScore \in 0..100

\* website live, two platforms, no news mention, one opportunity, one email: 85
CompletenessIsWeightedSumWitness ==
    /\ fused
    /\ intel.websiteData # <<>> /\ intel.websiteData[1].status = "live"
    /\ intel.websiteData[1].contactInfo = <<[emails |-> 1, phones |-> 0]>>
    /\ Len(FoundPlatforms) = 2
    /\ intel.newsData # <<>> /\ intel.newsData[1].totalMentions = 0
    /\ intel.businessData # <<>> /\ intel.businessData[1].opportunities = 1
    /\ intel.completenessScore = 85

RECURSIVE ConfidenceSum(_)
ConfidenceSum(S) ==
    IF S = {} THEN 0
    ELSE LET x == CHOOSE y \in S : TRUE
         IN  FoundPlatforms[x].confidenceScore + ConfidenceSum(S \ {x})

\* C12: confidenceScore is round(websiteConfidence / 2 + m / 4 + 25), the
\* integer r with r - 1/2 <= websiteConfidence / 2 + m / 4 + 25 < r + 1/2, where
\* websiteConfidence is 0 without a website result and m is the mean confidence
\* of the platforms found, 0 when there is none; no clamp is applied.
ConfidenceIsRoundedBlend ==
    fused =>
        LET r == intel.confidenceScore
            w == IF intel.websiteData = <<>> THEN 0
                 ELSE intel.websiteData[1].confidenceScore
            L == Len(FoundPlatforms)
            S == ConfidenceSum(1..L)
        IN  IF L = 0
            THEN 2 * r - 1 <= w + 50 /\ w + 50 < 2 * r + 1
            ELSE /\ 4 * L * r - 2 * L <= 2 * w * L + S + 100 * L
                 /\ 2 * w * L + S + 100 * L < 4 * L * r + 2 * L

\* a half is rounded up (0 / 2 + 30 / 4 + 25 = 32.5 gives 33), and 100 is
\* reached without a clamp
ConfidenceIsRoundedBlendWitness ==
    /\ fused
    /\ \/ /\ intel.websiteData = <<>>
          /\ Len(FoundPlatforms) = 1 /\ FoundPlatforms[1].confidenceScore = 30
          /\ intel.confidenceScore = 33
       \/ /\ intel.websiteData # <<>> /\ intel.websiteData[1].confidenceScore = 100
          /\ Len(FoundPlatforms) = 2
          /\ \A x \in 1..2 : FoundPlatforms[x].confidenceScore = 100
          /\ intel.confidenceScore = 100

\* the gaps, in their fixed order
GapOrder ==
    <<"Website not accessible", "No email found", "No social profiles found",
      "LinkedIn profile not found", "No news coverage found">>

\* the condition of each gap
GapHolds(g) ==
    CASE g = "Website not accessible" ->
            intel.websiteData = <<>> \/ intel.websiteData[1].status # "live"
      [] g = "No email found" ->
            \/ intel.websiteData = <<>>
            \/ intel.websiteData[1].contactInfo = <<>>
            \/ intel.websiteData[1].contactInfo[1].emails = 0
      [] g = "No social profiles found" -> Len(FoundPlatforms) = 0
      [] g = "LinkedIn profile not found" ->
            \A x \in 1..Len(FoundPlatforms) : FoundPlatforms[x].platform # "linkedin"
      [] g = "No news coverage found" ->
            intel.newsData = <<>> \/ intel.newsData[1].totalMentions = 0

\* C13: the gap list is the subsequence of the fixed list (website not live or
\* absent, no contact email, no social platforms, no LinkedIn profile, no news
\* mentions) whose conditions hold: each gap iff its condition, once, in order.
GapsAreOrderedSelection ==
    fused => intel.dataGaps = SelectSeq(GapOrder, GapHolds)

\* gaps that are not neighbours in the list, and the LinkedIn gap of a social
\* stage without result
GapsAreOrderedSelectionWitness ==
    /\ fused
    /\ \/ intel.dataGaps = <<"No email found", "LinkedIn profile not found">>
       \/ /\ intel.socialData = <<>>
          /\ intel.dataGaps = <<"No social profiles found", "LinkedIn profile not found">>

\* ------------------------------------------------------- evolution engine
\* the successRate of the row of a source, in units of 1 / RateScale
RateOf(rows, source) == rows[source][1].successRate
Exists(rows, source) == rows[source] # <<>>
\* call c has just written the row of its source (update or create)
Writes(c) == calls[c].wrote = "none" /\ calls'[c].wrote # "none"

RateInRange ==
    \A source \in SourceNames :
        Exists(sourceConfig, source)
        => /\ RateOf(sourceConfig, source) >= 0
           /\ RateOf(sourceConfig, source) <= 100 * RateScale

\* a failure took the rate of a row from 4 to the floor, and a row is created
\* at the ceiling by a first success
RateInRangeWitness ==
    \/ \E c \in CallIds :
          /\ calls[c].op = "SOURCE_FAILURE" /\ calls[c].wrote = "update"
          /\ calls[c].existing = <<SeedRow(4)>>
          /\ RateOf(sourceConfig, calls[c].source) = 0
    \/ \E c \in CallIds :
          /\ calls[c].op = "SOURCE_SUCCESS" /\ calls[c].wrote = "create"
          /\ RateOf(sourceConfig, calls[c].source) = 100 * RateScale

\* call c is a failure event that has just updated the existing row of its source
FailureUpdates(c) ==
    /\ calls[c].op = "SOURCE_FAILURE"
    /\ calls[c].wrote = "none" /\ calls'[c].wrote = "update"

\* C17: a failure event on an existing row whose successRate it read as s
\* leaves successRate at s - 10, or at 0 when s is below 10; s is the rate of
\* the row itself when no other event wrote the row since the read.
FailureSubtractsTen ==
    [][\A c \in CallIds :
          FailureUpdates(c) =>
             LET s == calls[c].existing[1].successRate
                 t == RateOf(sourceConfig', calls[c].source)
             IN  /\ s >= 10 * RateScale => t = s - 10 * RateScale
                 /\ s < 10 * RateScale => t = 0
                 /\ sourceConfig[calls[c].source] = calls[c].existing
                      => t = IF RateOf(sourceConfig, calls[c].source) >= 10 * RateScale
                             THEN RateOf(sourceConfig, calls[c].source) - 10 * RateScale
                             ELSE 0]_vars

\* the examples: 80 became 82 by a success and then 72 by a failure, the row
\* still enabled; or 25 became 15 and the row disabled; or 4 became 0
FailureSubtractsTenWitness ==
    \E c \in CallIds :
        /\ calls[c].op = "SOURCE_FAILURE" /\ calls[c].wrote = "update"
        /\ LET s == calls[c].existing[1].successRate
               row == sourceConfig[calls[c].source][1]
           IN  \/ /\ s = 82 * RateScale
                  /\ row.successRate = 72 * RateScale /\ row.isEnabled
               \/ /\ s = 25 * RateScale
                  /\ row.successRate = 15 * RateScale /\ ~row.isEnabled
               \/ /\ s = 4 * RateScale /\ row.successRate = 0

\* C18: the logging functions never propagate an error: no call ends by an
\* exception, and a call whose store operation failed (appending the event,
\* reading or writing the row) has returned normally.
NeverPropagates ==
    \A c \in CallIds :
        /\ calls[c].pc # "thrown"
        /\ calls[c].error # "" => calls[c].pc = "returned"

\* the append of an event has failed and the call has returned, nothing logged
NeverPropagatesWitness ==
    \E c \in CallIds :
        /\ calls[c].pc = "returned"
        /\ calls[c].error = "evolutionLog.create"
        /\ calls[c].eventId = 0
        /\ evolutionLog = <<>>

\* C19: the event log is append-only: a step leaves the log as it is or adds
\* one event at its end, so that the log before is a prefix of the log after;
\* a call whose append succeeded has added exactly its own event, which stays
\* where it was put.
AppendOnly ==
    [][/\ Len(evolutionLog') \in {Len(evolutionLog), Len(evolutionLog) + 1}
       /\ SubSeq(evolutionLog', 1, Len(evolutionLog)) = evolutionLog
       /\ \A c \in CallIds :
             /\ calls'[c].eventId # calls[c].eventId
                  => /\ Len(evolutionLog') = Len(evolutionLog) + 1
                     /\ calls'[c].eventId = Len(evolutionLog')
             /\ calls'[c].eventId # 0
                  => /\ evolutionLog'[calls'[c].eventId].eventType = calls'[c].op
                     /\ evolutionLog'[calls'[c].eventId].source = calls'[c].source]_vars

\* one event of each type, by three calls that have returned
AppendOnlyWitness ==
    /\ Len(evolutionLog) = 3
    /\ {evolutionLog[n].eventType : n \in 1..3}
         = {"SOURCE_SUCCESS", "SOURCE_FAILURE", "RESEARCH_COMPLETE"}
    /\ \A c \in CallIds : calls[c].pc = "returned" /\ calls[c].eventId # 0

\* call c has just updated the existing row of its source
Updates(c) == calls[c].wrote = "none" /\ calls'[c].wrote = "update"

\* C20: lost update on the reliability row: an update writes the successRate
\* that follows from the rate the call read, whatever the row holds when it is
\* written; so when two events for the same existing source read the row before
\* either writes it, both events are in the log and the rate reflects one of
\* them only (two successes from 80 leave 82, not 83.8).
LostUpdate ==
    [][\A c \in CallIds :
          Updates(c) =>
             LET s == calls[c].existing[1].successRate
                 t == RateOf(sourceConfig', calls[c].source)
             IN  IF calls[c].op = "SOURCE_SUCCESS"
                 THEN 10 * (t - s) = 100 * RateScale - s
                 ELSE t = IF s >= 10 * RateScale THEN s - 10 * RateScale ELSE 0]_vars

\* two successes that both read 80: both are logged, both updated the row, and
\* the rate is 82
LostUpdateWitness ==
    \E b, c \in CallIds :
        /\ b # c
        /\ calls[b].source = calls[c].source
        /\ \A x \in {b, c} :
              /\ calls[x].op = "SOURCE_SUCCESS"
              /\ calls[x].pc = "returned" /\ calls[x].wrote = "update"
              /\ calls[x].existing[1].successRate = 80 * RateScale
              /\ evolutionLog[calls[x].eventId].eventType = "SOURCE_SUCCESS"
        /\ Len(evolutionLog) = 2
        /\ RateOf(sourceConfig, calls[c].source) = 82 * RateScale
        /\ sourceConfig[calls[c].source][1].currentDailyUsage = 2

\* ------------------------------------- successRate under repeated successes
\* comparison of gaps
Below(g, h) == g.hi < h.hi \/ (g.hi = h.hi /\ g.lo < h.lo)
\* ten times a gap
TenTimes(g) == [hi |-> g.hi * 10 + (g.lo * 10) \div Limb, lo |-> (g.lo * 10) % Limb]
\* g - h for gaps that differ by less than a limb
Apart(g, h) == (g.hi - h.hi) * Limb + (g.lo - h.lo)

CompletionScores ==
    LET rows == SelectSeq(evolutionLog, LAMBDA r : r.eventType = "RESEARCH_COMPLETE")
    IN  [n \in 1..Len(rows) |-> rows[n].completenessScore[1]]

RECURSIVE SumFromTo(_, _, _)
SumFromTo(scores, from, to) ==
    IF from > to THEN 0 ELSE scores[from] + SumFromTo(scores, from + 1, to)

SourceEvents ==
    SelectSeq(evolutionLog,
              LAMBDA r : r.eventType \in {"SOURCE_SUCCESS", "SOURCE_FAILURE"})
\* the stages of job j that are marked COMPLETED and whose collaborator was invoked
InvokedAndCompleted(j) ==
    {k \in Stages : job[j].agents[k] = "COMPLETED" /\ Invokes(j, k)}

\* C22: the outcome of every collaborator invocation is recorded with the
\* evolution engine: by the time a stage is marked COMPLETED, a source success
\* or failure event of that stage is in the evolution log, so the log holds at
\* least one source event per completed stage whose collaborator was invoked.
StageOutcomesLogged ==
    \A j \in JobIds : Len(SourceEvents) >= Cardinality(InvokedAndCompleted(j))

\* no submission route is between the creation of a job and its answer
RoutesAnswered == startCreated = {} /\ batchPending = <<>> /\ StartsInFlight = 0

\* C23: every job that /start, /execute/:companyId or /batch created is handed
\* to executeResearch: once the route has answered, a run of the job has been
\* started (and takes the job out of QUEUED without a cancel request).
CreatedJobsAreRun ==
    RoutesAnswered => \A j \in JobIds : job[j].status # "NONE" => run[j].pc # "idle"

\* the company status that mirrors a job status
Mirrored(status) ==
    CASE status = "QUEUED" -> "QUEUED"
      [] status = "RUNNING" -> "RESEARCHING"
      [] status = "COMPLETED" -> "COMPLETED"
      [] status = "FAILED" -> "FAILED"
      [] status = "CANCELLED" -> "PENDING"

\* no cancel request and no step of executeResearch is in progress for job j
Quiescent(j) ==
    /\ cancelJob[j] = 0 /\ cancelCo[j] = 0
    /\ run[j].pc \in {"idle", "returned", "thrown"}

\* C24: a company that has a single job mirrors the status of the job whenever
\* no cancel request and no step of executeResearch is in progress, whatever
\* the interleaving of a cancel request with the run (stated for behaviours in
\* which no store operation failed).
MirrorInLockstep ==
    \A j \in JobIds :
        (/\ job[j].status \in {"QUEUED", "RUNNING", "COMPLETED", "FAILED", "CANCELLED"}
         /\ \A i \in JobIds \ {j} : job[i].companyId # job[j].companyId
         /\ RoutesAnswered /\ Quiescent(j)
         /\ run[j].pc # "idle"
         /\ run[j].thrown = "" /\ ~run[j].swallowed)
        => company[job[j].companyId].status = Mirrored(job[j].status)

\* C25: a run of executeResearch on an existing job ends with the job
\* COMPLETED or FAILED, never RUNNING, also when store operations fail (stated
\* for jobs that no cancel request wrote).
RunEndsCompletedOrFailed ==
    \A j \in JobIds :
        (run[j].pc \in {"returned", "thrown"} /\ cancelMark[j] = NoMark /\ cancelJob[j] = 0)
        => job[j].status \in {"COMPLETED", "FAILED"}

\* run j takes a step
Steps(j) == run'[j] # run[j]

\* C26: for k = 1..4, the step of executeResearch that follows the return of
\* the collaborator call of stage k is the write of progress 25 * k together
\* with the COMPLETED status of the stage, whether the call returned usable
\* data or a degraded result; the website stage of a company without website
\* makes no call, leaves its output absent and is followed by the same write.
\* (The write changes the row unless the store fails, which is swallowed.)
StageDoneWritesCutoff ==
    [][\A j \in JobIds :
          LET k == run[j].stage
          IN  /\ (run[j].pc = "call" /\ Steps(j))
                   => /\ run'[j].pc = "stageDone" /\ run'[j].stage = k
                      /\ run'[j].intel[k] \in {"ok", "degraded"}
              /\ (run[j].pc = "stageRun" /\ Steps(j) /\ k = 1
                     /\ ~company[job[j].companyId].website)
                   => /\ run'[j].pc = "stageDone" /\ run'[j].stage = k
                      /\ run'[j].intel[k] = "null"
              /\ (run[j].pc = "stageDone" /\ Steps(j))
                   => \/ /\ job'[j].progress = 25 * k
                         /\ job'[j].agents[k] = "COMPLETED"
                         /\ faults' = faults
                      \/ /\ job' = job
                         /\ faults' = faults - 1
                         /\ run'[j].swallowed]_vars

\* a company without website: stage 1 is COMPLETED at 25 with no output, and
\* stage 2 is COMPLETED at 50 on a degraded result
StageDoneWritesCutoffWitness ==
    \E j \in JobIds :
        /\ run[j].pc = "stageRun" /\ run[j].stage = 3 /\ ~run[j].swallowed
        /\ ~company[job[j].companyId].website
        /\ run[j].intel = <<"null", "degraded", "null", "null">>
        /\ job[j].progress = 50
        /\ job[j].agents = <<"COMPLETED", "COMPLETED", "PENDING", "PENDING">>

\* C27: the fused reputationScore is the reputationScore that the news
\* collaborator returned whenever the news stage produced a result, for every
\* score in 0..100, the score 0 included; it is 50 only when the news stage
\* produced no result.
ReputationIsNewsScore ==
    fused => intel.reputationScore = IF intel.newsData = <<>> THEN 50
                                     ELSE intel.newsData[1].reputationScore

\* ------------------------------------------- evolution engine: the averages
\* call c is a success event that has just updated the existing row of its source
SuccessUpdates(c) ==
    /\ calls[c].op = "SOURCE_SUCCESS"
    /\ calls[c].wrote = "none" /\ calls'[c].wrote = "update"

\* C28 as stated: every success event with duration d >= 0 and quality q >= 0
\* on an existing row leaves avgDurationMs at round((avgDurationMs + d) / 2),
\* the integer r with r - 1/2 <= (avgDurationMs + d) / 2 < r + 1/2, and
\* avgQualityScore at (avgQualityScore + q) / 2.
AveragesAlwaysHalved ==
    [][\A c \in CallIds :
          SuccessUpdates(c) =>
             LET read == calls[c].existing[1]
                 row == sourceConfig'[calls[c].source][1]
                 d == calls[c].durationMs
                 q == calls[c].qualityScore
             IN  /\ 2 * row.avgDurationMs - 1 <= read.avgDurationMs + d
                 /\ read.avgDurationMs + d < 2 * row.avgDurationMs + 1
                 /\ 2 * row.avgQualityScore = read.avgQualityScore + q * QualityScale]_vars

\* C28, amended: a success event on an existing row, with the averages it read,
\* leaves avgDurationMs at round((avgDurationMs + d) / 2) when d > 0 and
\* unchanged when d = 0, and avgQualityScore at (avgQualityScore + q) / 2 when
\* q > 0 and unchanged when q = 0.
AveragesHalvedWhenPositive ==
    [][\A c \in CallIds :
          SuccessUpdates(c) =>
             LET read == calls[c].existing[1]
                 row == sourceConfig'[calls[c].source][1]
                 d == calls[c].durationMs
                 q == calls[c].qualityScore
             IN  /\ d > 0 => /\ 2 * row.avgDurationMs - 1 <= read.avgDurationMs + d
                             /\ read.avgDurationMs + d < 2 * row.avgDurationMs + 1
                 /\ d = 0 => row.avgDurationMs = read.avgDurationMs
                 /\ q > 0 => 2 * row.avgQualityScore
                                = read.avgQualityScore + q * QualityScale
                 /\ q = 0 => row.avgQualityScore = read.avgQualityScore]_vars

\* averages 1000 ms and 50: a success of 1501 ms and quality 70 left 1251 ms
\* (1250.5 rounded up) and 60, and a success of 0 ms and quality 0 that read
\* these left them as they were
AveragesHalvedWhenPositiveWitness ==
    \E b, c \in CallIds :
        /\ calls[b].op = "SOURCE_SUCCESS" /\ calls[b].wrote = "update"
        /\ calls[b].durationMs = 1501 /\ calls[b].qualityScore = 70
        /\ calls[b].existing[1].avgDurationMs = 1000
        /\ calls[b].existing[1].avgQualityScore = 50 * QualityScale
        /\ calls[c].op = "SOURCE_SUCCESS" /\ calls[c].wrote = "update"
        /\ calls[c].source = calls[b].source
        /\ calls[c].durationMs = 0 /\ calls[c].qualityScore = 0
        /\ calls[c].existing[1].avgDurationMs = 1251
        /\ sourceConfig[calls[c].source][1].avgDurationMs = 1251
        /\ sourceConfig[calls[c].source][1].avgQualityScore = 60 * QualityScale

\* the calls that have updated the existing row of a source
UpdatesOf(source) ==
    {c \in CallIds : calls[c].source = source /\ calls[c].wrote = "update"}
\* the success and failure events for a source were processed one after the
\* other, the first one found no row, and no store operation failed
Sequential(source) ==
    /\ \A c \in CallIds :
          /\ calls[c].pc \in {"idle", "returned"} /\ calls[c].error = ""
          /\ calls[c].op \in {"SOURCE_SUCCESS", "SOURCE_FAILURE"}
               => calls[c].source = source /\ calls[c].wrote # "none"
    /\ \E c \in CallIds : calls[c].wrote = "create"

\* C29: an event that updates the existing row of a source adds exactly 1 to
\* the currentDailyUsage of the row, the event that creates the row leaves the
\* counter at 0, and no other step changes the counter: the counter of a row
\* grows by the number of events that updated it, and after n >= 1 events for
\* a new source, processed one after the other, it has grown by n - 1.
UsageCountsUpdates ==
    [][/\ \A c \in CallIds :
             LET source == calls[c].source
             IN  /\ (calls[c].wrote = "none" /\ calls'[c].wrote = "update")
                      => sourceConfig'[source][1].currentDailyUsage
                           = sourceConfig[source][1].currentDailyUsage + 1
                 /\ (calls[c].wrote = "none" /\ calls'[c].wrote = "create")
                      => sourceConfig'[source][1].currentDailyUsage = 0
       /\ \A source \in SourceNames :
             /\ sourceConfig'[source] # <<>>
                  => sourceConfig'[source][1].currentDailyUsage
                       = Cardinality(UpdatesOf(source)')
             /\ Sequential(source)'
                  => sourceConfig'[source][1].currentDailyUsage
                       = Cardinality({c \in CallIds : calls'[c].wrote # "none"}) - 1]_vars

\* three events for a new source, one after the other: a success created the
\* row, a failure and a success updated it, and the counter is 2
UsageCountsUpdatesWitness ==
    \E source \in SourceNames :
        /\ Sequential(source)
        /\ \A c \in CallIds : calls[c].wrote # "none"
        /\ Cardinality(CallIds) >= 3
        /\ \E c \in CallIds : calls[c].op = "SOURCE_FAILURE" /\ calls[c].wrote = "update"
        /\ sourceConfig[source][1].currentDailyUsage = Cardinality(CallIds) - 1

\* C30: logResearchComplete appends one RESEARCH_COMPLETE event and returns;
\* no step of the call changes or creates a source row (successRate, enabled,
\* averages and currentDailyUsage included).  When the append fails the log is
\* left as it was and the call returns as well.
CompletionOnlyAppends ==
    [][\A c \in CallIds :
          (calls[c].op = "RESEARCH_COMPLETE" /\ calls'[c] # calls[c])
          => /\ sourceConfig' = sourceConfig
             /\ calls'[c].pc = "returned" /\ calls'[c].wrote = "none"
             /\ \/ /\ calls'[c].error = ""
                    /\ Len(evolutionLog') = Len(evolutionLog) + 1
                    /\ SubSeq(evolutionLog', 1, Len(evolutionLog)) = evolutionLog
                    /\ evolutionLog'[Len(evolutionLog')].eventType = "RESEARCH_COMPLETE"
                    /\ evolutionLog'[Len(evolutionLog')].completenessScore
                         = calls[c].completenessScore
                \/ /\ calls'[c].error # ""
                    /\ evolutionLog' = evolutionLog]_vars

\* a completion event was appended after a failure event had taken the row of
\* a source from 25 to 15 and disabled it; the row is as the failure left it
CompletionOnlyAppendsWitness ==
    \E b, c \in CallIds :
        /\ calls[c].op = "RESEARCH_COMPLETE" /\ calls[c].pc = "returned"
        /\ calls[c].eventId = Len(evolutionLog) /\ Len(evolutionLog) = 2
        /\ calls[b].op = "SOURCE_FAILURE" /\ calls[b].wrote = "update"
        /\ calls[b].eventId = 1
        /\ \A a \in CallIds \ {b, c} : calls[a].pc = "idle"
        /\ sourceConfig[calls[b].source]
             = <<[SeedRow(25) EXCEPT !.successRate = 15 * RateScale,
                                     !.isEnabled = FALSE,
                                     !.currentDailyUsage = 1]>>

\* ------------------------------------------- insights: short completion logs
\* C31: whenever fewer than 20 completion events exist, whatever their
\* completenessScore, analyzeLearningInsights reports the quality trend stable.
StableBelowTwenty ==
    (insights # <<>> /\ Len(CompletionScores) < 20)
    => insights[1].qualityTrend = "stable"

\* --------------------------------------------------------- social hunter
\* the searches that found a profile
FoundBy == {p \in DOMAIN searches : ~IsNull(searches[p].value)}

\* C32: huntSocialProfiles starts one search per platform, six in all, and
\* neither the verification pass nor the return happens before all six have
\* resolved; a search that fails resolves to "not found" (null) and does not
\* abort the hunt: the result lists the profiles of all the searches that
\* found one and carries no error.
JoinWaitsForAll ==
    /\ hunt.pc # "idle" => DOMAIN searches = 1..6
    /\ hunt.pc \in {"verify", "returned"}
       => \A p \in DOMAIN searches : searches[p].state = "fulfilled"
    /\ \A p \in DOMAIN searches :
          searches[p].threw => searches[p].state = "fulfilled" /\ IsNull(searches[p].value)
    /\ hunt.pc = "verify" => Len(hunt.foundProfiles) = Cardinality(FoundBy)
    /\ hunt.pc = "returned"
       => /\ hunt.result.errors = <<>>
          /\ Len(hunt.result.platforms) = Cardinality(FoundBy)

\* a hunt has returned two profiles although a search failed
JoinWaitsForAllWitness ==
    /\ hunt.pc = "returned"
    /\ \E p \in DOMAIN searches : searches[p].threw
    /\ Len(hunt.result.platforms) = 2

\* C33: the verification pass adjusts the confidence of each found profile in
\* the stated direction, whatever the initial confidence in 0..100: the
\* confidence of a verified profile never decreases (and stays at most 100),
\* the confidence of an unverified profile never increases.
VerificationAdjustsAsStated ==
    [][hunt.pc = "verify"
       => LET before == hunt.foundProfiles[hunt.i]
              after == hunt'.foundProfiles[hunt.i]
          IN  /\ before.confidenceScore \in 0..100
              /\ after.verified
                 => /\ after.confidenceScore >= before.confidenceScore
                    /\ after.confidenceScore <= 100
              /\ ~after.verified
                 => after.confidenceScore <= before.confidenceScore]_vars

\* ------------------------------------------- executeResearch: stage statuses
\* C34: every stage that was marked RUNNING is later marked COMPLETED or
\* FAILED: whenever the stored status of a job is COMPLETED or FAILED, none of
\* its per-stage statuses is RUNNING.
NoStageLeftRunning ==
    \A j \in JobIds :
        job[j].status \in {"COMPLETED", "FAILED"}
        => \A k \in Stages : job[j].agents[k] # "RUNNING"

\* C35: whenever the stored status of a job is COMPLETED, its stored progress
\* is 100 and the stored statuses of the four executed stages are all
\* COMPLETED, also when progress writes fail.
CompletedMeansAllDone ==
    \A j \in JobIds :
        job[j].status = "COMPLETED"
        => /\ job[j].progress = 100
           /\ \A k \in Stages : job[j].agents[k] = "COMPLETED"

\* --------------------------------------- evolution engine: concurrent events
\* the calls that updated the row of a source all read the same row: they
\* were processed concurrently
ReadTheSame(source) ==
    \A b, c \in UpdatesOf(source) : calls[b].existing = calls[c].existing

\* C36: the usage counter loses no update: when n events for the same existing
\* source row are processed concurrently (all read the row before any of them
\* wrote it) and each has reached its row update, currentDailyUsage has grown by
\* exactly n over the value that they read, whatever the interleaving; and in
\* general it has grown by at least the number of updates by events that read
\* the same row.
UsageLosesNoUpdate ==
    \A source \in SourceNames : \A c \in UpdatesOf(source) :
        LET usage == sourceConfig[source][1].currentDailyUsage
            read == calls[c].existing[1].currentDailyUsage
            readers == {b \in UpdatesOf(source) : calls[b].existing = calls[c].existing}
        IN  /\ usage >= read + Cardinality(readers)
            /\ ReadTheSame(source) => usage = read + Cardinality(UpdatesOf(source))

\* three success events read the row with successRate 80 before any of them
\* wrote it: the counter has grown by 3, successRate reflects one event (82)
UsageLosesNoUpdateWitness ==
    \E source \in SourceNames :
        /\ Cardinality(UpdatesOf(source)) = 3
        /\ ReadTheSame(source)
        /\ \A c \in UpdatesOf(source) :
              /\ calls[c].op = "SOURCE_SUCCESS"
              /\ calls[c].existing[1].successRate = 80 * RateScale
              /\ calls[c].existing[1].currentDailyUsage = 0
        /\ sourceConfig[source][1].currentDailyUsage = 3
        /\ sourceConfig[source][1].successRate = 82 * RateScale

\* the calls that created the row of a source, and the calls for the source
\* that found no row and have returned from their create
CreatorsOf(source) ==
    {c \in CallIds : calls[c].source = source /\ calls[c].wrote = "create"}
FoundNoRow(source) ==
    {c \in CallIds :
        /\ calls[c].source = source /\ calls[c].pc = "returned"
        /\ calls[c].op \in {"SOURCE_SUCCESS", "SOURCE_FAILURE"}
        /\ IsNull(calls[c].existing)
        /\ calls[c].wrote = "create" \/ calls[c].error = "sourceConfig.create"}

\* C37: when the first events logged for a new source are processed
\* concurrently, at most one row is created for the source name, whatever the
\* interleaving; and when two of them found no row (and no store operation
\* failed otherwise), the later create fails silently: that call returns with
\* the error logged, the row is the one that the creating event seeded (as long
\* as no event has updated it) and the events of both calls are in the log.
FirstEventsCreateOneRow ==
    \A source \in SourceNames :
        /\ Cardinality(CreatorsOf(source)) <= 1
        /\ faults = EngineFailures
           => \A c \in FoundNoRow(source) \ CreatorsOf(source) :
                 /\ calls[c].error = "sourceConfig.create"
                 /\ evolutionLog[calls[c].eventId] = Event(c)
                 /\ \E b \in CreatorsOf(source) :
                       /\ evolutionLog[calls[b].eventId] = Event(b)
                       /\ UpdatesOf(source) = {}
                          => sourceConfig[source] =
                                Some(CreatedRow(calls[b].op = "SOURCE_SUCCESS",
                                                calls[b].durationMs,
                                                calls[b].qualityScore))

\* a failure and a success for a new source both found no row: the failure
\* created the row (successRate 0), the create of the success failed, both
\* events are in the log
FirstEventsCreateOneRowWitness ==
    \E source \in SourceNames : \E b, c \in FoundNoRow(source) :
        /\ faults = EngineFailures
        /\ calls[b].op = "SOURCE_FAILURE" /\ calls[b].wrote = "create"
        /\ calls[c].op = "SOURCE_SUCCESS" /\ calls[c].error = "sourceConfig.create"
        /\ sourceConfig[source][1].successRate = 0
        /\ Len(evolutionLog) = 2

\* ------------------------------------- evolution engine: disabling, recovery
\* the calls c, c + 1 and c + 2 are success events that updated the row of one
\* source one after the other
ThreeSuccesses(c) ==
    /\ c + 2 \in CallIds
    /\ \A b \in c..(c + 2) :
          /\ calls[b].op = "SOURCE_SUCCESS" /\ calls[b].wrote = "update"
          /\ calls[b].source = calls[c].source

\* C38: a disabled source recovers: from any successRate in [0, 20] with the
\* source disabled, 3 consecutive success events with no failure in between
\* leave the source enabled (so at most 3 are needed); and from a successRate
\* in (20, 30] a single failure event disables the source.
DisabledSourceRecovers ==
    [][\A c \in CallIds :
          LET read == calls'[c].existing[1]
              row == sourceConfig'[calls'[c].source][1]
          IN  /\ (/\ calls[c].wrote = "none" /\ calls'[c].wrote = "update"
                  /\ calls'[c].op = "SOURCE_FAILURE"
                  /\ read.successRate > 20 * RateScale
                  /\ read.successRate <= 30 * RateScale)
                 => ~row.isEnabled
              /\ (/\ ThreeSuccesses(c)' /\ calls[c + 2].wrote = "none"
                  /\ read.successRate <= 20 * RateScale /\ ~read.isEnabled)
                 => row.isEnabled]_vars

\* three successes from successRate 0: the second left the rate at 19 and the
\* source disabled, the third leaves 27.1 and the source enabled
DisabledSourceRecoversWitness ==
    /\ ThreeSuccesses(1)
    /\ calls[1].existing[1].successRate = 0 /\ ~calls[1].existing[1].isEnabled
    /\ calls[3].existing[1].successRate = 19 * RateScale
    /\ ~calls[3].existing[1].isEnabled
    /\ sourceConfig[calls[1].source][1].isEnabled
    /\ 10 * sourceConfig[calls[1].source][1].successRate = 271 * RateScale

\* ------------------------------------------- insights: the processing time
\* C39: logResearchComplete stores no duration on the events that it appends,
\* so for every log built by the logging functions of the engine
\* analyzeLearningInsights reports avgProcessingTime 0 and never recommends
\* anything about a high processing time.
ProcessingTimeAlwaysZero ==
    /\ \A n \in DOMAIN evolutionLog :
          evolutionLog[n].eventType = "RESEARCH_COMPLETE"
          => IsNull(evolutionLog[n].durationMs)
    /\ ~IsNull(insights)
       => /\ Get(insights).avgProcessingTime = 0
          /\ \A n \in DOMAIN Get(insights).recommendations :
                Get(insights).recommendations[n] # "Processing time is high"

\* the analysis ran, with no store failure, on a log that holds a completion
\* event and a success event of 400 seconds
ProcessingTimeAlwaysZeroWitness ==
    /\ ~IsNull(insights)
    /\ faults = InsightFailures
    /\ Len(evolutionLog) = 2
    /\ evolutionLog[1].eventType = "SOURCE_SUCCESS"
    /\ evolutionLog[1].durationMs = Some(400000)
    /\ evolutionLog[2].eventType = "RESEARCH_COMPLETE"
    /\ Get(insights).avgProcessingTime = 0
====
